---- MODULE Spec2Model ----
(***************************************************************************)
(* VPN access grants (VPNSession) of the 2FA-Mikrotik-VPN backend: the     *)
(* session service, the scheduler jobs and the Telegram handlers that      *)
(* drive a grant through its life cycle, together with the part of the     *)
(* MikroTik device they act on (identity enabled/disabled, firewall rule   *)
(* enabled/disabled).                                                      *)
(*                                                                         *)
(* Every handler is one action.  Inside an action the code's statements    *)
(* are applied in order to a "world" record w:                             *)
(*   w.s       the vpn_sessions table, id -> row                           *)
(*   w.idDis   device: identity name -> disabled flag                      *)
(*   w.ruleDis device: firewall rule id -> disabled flag                   *)
(*   w.tr      status changes written by this handler, in order            *)
(*   w.calls   device calls issued by this handler, in order               *)
(*   w.notes   notifications emitted by this handler, in order             *)
(* Time is in seconds (datetime.utcnow()); NoTime is a NULL column.        *)
(***************************************************************************)
EXTENDS Integers, Sequences, FiniteSets, TLC

VARIABLES sessions, nextId, idDisabled, ruleDisabled, userStatus,
          userSettings, settings, prompted, now, ticks, steps, last

\* the vpn_sessions table as the retention job reads it (id -> status, updated_at)
\* and what its last run deleted
VARIABLES vpnRows, sweep

\* the grants, the device and the chat, without the clock and the settings store
grantVars == <<sessions, nextId, idDisabled, ruleDisabled, userStatus,
               userSettings, prompted, ticks, steps, last>>

\* SchedulerService: whether it was started and the interval its connection-check job
\* was given; per job the notifications its run in flight has still to send (0: no
\* run in flight); whether an active device configuration exists; what the last
\* trigger of a job did
VARIABLES scheduler, inFlight, deviceConfig, lastRun

\* a confirmation reply and a job run that work on the same grant at the same time,
\* each in its own process with its own database session: the inputs, the statement
\* each has reached, the row each holds in memory, the store and device at the start
VARIABLES race

\* the user_mikrotik_accounts table (the identities bound to each grantee) and the
\* last binding request: its grantee, the names it carried once cleaned, its outcome
VARIABLES accounts, lastBind

\* a call of a device adapter operation together with what the device does when it
\* is made, and what the operation returned
VARIABLES adapterCall, adapterReply

\* a function of the shell output parsers applied to an input, and what it returned
VARIABLES parseInput, parseOutput

retentionVars == <<vpnRows, sweep>>

parserVars == <<parseInput, parseOutput>>

adapterVars == <<adapterCall, adapterReply, parserVars>>

bindingVars == <<accounts, lastBind>>

schedulerVars == <<scheduler, inFlight, deviceConfig, lastRun, race>>

\* the state of the components that the life cycle of a grant does not touch
componentVars == <<retentionVars, schedulerVars, bindingVars, adapterVars>>

vars == <<grantVars, settings, now, componentVars>>

----------------------------------------------------------------------------
(* Bounds of the model *)

MaxSessions == 2
MaxTicks == 3
MaxSteps == 4
SeedSteps == 1
MaxRows == 2
MaxNotes == 2
MaxUsernames == 3

----------------------------------------------------------------------------
(* Data of the program *)

NoTime == 0 - 1
NoRule == "no_rule"
NoComment == "no_comment"
NoSettings == [present |-> FALSE, require_confirmation |-> FALSE,
               session_duration_hours |-> 0, reminder_interval_hours |-> 0,
               firewall_rule_comment |-> NoComment]

VPNSessionStatus == {"requested", "connected", "confirmed", "active",
                     "reminder_sent", "expired", "disconnected"}

NonTerminal == {"requested", "connected", "confirmed", "active", "reminder_sent"}

Terminal == {"expired", "disconnected"}

Users == {"u1", "u2"}

Identities == {"a1", "a2"}

Rules == {"*1"}

\* the device's firewall rule carrying a given comment (find_firewall_rule_by_comment)
RuleByComment(c) == IF c = "c1" THEN "*1" ELSE NoRule

\* UserSetting(user_id=..., reminder_interval_hours=6) with the column defaults
DefaultUserSetting == [present |-> TRUE, require_confirmation |-> FALSE,
                       session_duration_hours |-> 24, reminder_interval_hours |-> 6,
                       firewall_rule_comment |-> NoComment]

SecondsPerHour == 3600
ResurrectWindowSeconds == 86400
MinGraceSeconds == 30
DefaultDurationHours == 24
DefaultConfirmationTimeout == 300
DefaultCheckInterval == 60
DefaultReminderHours == 6
RetentionDays == 30

\* the instants, after 0, at which handlers run: within the confirmation timeout but
\* past the grace window; past the timeout; more than 24 h and every duration later
Instants == <<250, 350, 90000>>

\* kinds of device call that may fail during one handler
\* "query": the session listing; "identity": set_user_manager_user_disabled;
\* "rule": the firewall calls (lookup by comment, enable, disable); "terminate"
DeviceOps == {"query", "identity", "rule", "terminate"}

\* the device is reachable, or every call to it fails
FailSets == {{}, DeviceOps}

\* during a connection check the device may also be lost after the session listing,
\* or answer but raise an error on each of its session listing paths ("listing")
CheckFailSets == FailSets \cup {DeviceOps \ {"query"}, {"listing"}}

\* what the device holds for an identity: no session record, a session record that
\* is not flagged active, or a session record flagged active
RecordKinds == {"none", "inactive", "active"}

\* the listings a connection check is given: records flagged active only, or
\* records none of which is flagged active
Reports ==
  {r \in [Identities -> RecordKinds] :
     ~(\E n1, n2 \in Identities : r[n1] = "active" /\ r[n2] = "inactive")}

\* the identities the device states to be active
Flagged(report) == {n \in Identities : report[n] = "active"}

\* the stored configurations the model starts from.  u1 is approved (the identities a1, a2
\* are the ones a request may name); its user_settings row is either the one create_user writes
\* (u1default) or carries an individual duration of 1 h, a rule comment and the
\* require_confirmation flag u1req.  u2 is a pending user with the default row, or an
\* active user without a row of its own, for whom the global default decides.
Configs ==
  { [global |-> FALSE, interval |-> DefaultCheckInterval, u1default |-> FALSE,
     u1req |-> FALSE, u2status |-> "pending"],
    [global |-> FALSE, interval |-> DefaultCheckInterval, u1default |-> FALSE,
     u1req |-> TRUE, u2status |-> "pending"],
    [global |-> TRUE, interval |-> 10, u1default |-> TRUE,
     u1req |-> FALSE, u2status |-> "active"] }

----------------------------------------------------------------------------
(* Helpers *)

Max(a, b) == IF a >= b THEN a ELSE b

SeqToSet(q) == {q[i] : i \in 1..Len(q)}

Perms(S) == {q \in [1..Cardinality(S) -> S] : SeqToSet(q) = S}

World == [s |-> sessions, idDis |-> idDisabled, ruleDis |-> ruleDisabled,
          tr |-> <<>>, calls |-> <<>>, notes |-> <<>>]

Call(w, op, target, ok) ==
  [w EXCEPT !.calls = Append(@, [op |-> op, target |-> target, ok |-> ok])]

Notify(w, kind, id) == [w EXCEPT !.notes = Append(@, [kind |-> kind, id |-> id])]

\* an assignment to VPNSession.status followed by a commit
SetStatus(w, id, st) ==
  [w EXCEPT !.s[id].status = st,
            !.tr = IF w.s[id].status = st THEN @
                   ELSE Append(@, [id |-> id, from |-> w.s[id].status, to |-> st])]

get_user_settings(u) == userSettings[u]

\* int(getattr(user_settings, "session_duration_hours", 24) or 24) if user_settings else 24
DurationHours(u) ==
  LET us == get_user_settings(u)
  IN IF us.present /\ us.session_duration_hours # 0
     THEN us.session_duration_hours ELSE DefaultDurationHours

get_active_vpn_session_for_user(S, u) ==
  {i \in DOMAIN S : S[i].user_id = u /\ S[i].status \in NonTerminal}

----------------------------------------------------------------------------
(* Device protocol adapter, as far as the grant life cycle uses it *)

set_user_manager_user_disabled(w, name, disabled, fail) ==
  IF "identity" \in fail
  THEN Call(w, IF disabled THEN "disable_identity" ELSE "enable_identity", name, FALSE)
  ELSE [Call(w, IF disabled THEN "disable_identity" ELSE "enable_identity", name, TRUE)
          EXCEPT !.idDis[name] = disabled]

enable_user_manager_user(w, name, fail) == set_user_manager_user_disabled(w, name, FALSE, fail)

disable_user_manager_user(w, name, fail) == set_user_manager_user_disabled(w, name, TRUE, fail)

enable_firewall_rule(w, rule, fail) ==
  IF "rule" \in fail THEN Call(w, "enable_rule", rule, FALSE)
  ELSE [Call(w, "enable_rule", rule, TRUE) EXCEPT !.ruleDis[rule] = FALSE]

disable_firewall_rule(w, rule, fail) ==
  IF "rule" \in fail THEN Call(w, "disable_rule", rule, FALSE)
  ELSE [Call(w, "disable_rule", rule, TRUE) EXCEPT !.ruleDis[rule] = TRUE]

terminate_active_sessions_for_username(w, name, fail) ==
  Call(w, "terminate", name, "terminate" \notin fail)

----------------------------------------------------------------------------
(* Session service *)

NewSession(u, name, expires) ==
  [user_id |-> u, mikrotik_username |-> name, status |-> "requested",
   created_at |-> now, connected_at |-> NoTime, confirmed_at |-> NoTime,
   expires_at |-> expires, reminder_sent_at |-> NoTime, last_seen_at |-> NoTime,
   firewall_rule_id |-> NoRule]

\* Faulty variant: the row is added and committed before the identity is enabled
create_vpn_session_row_first(w, u, name, fail, dbOk) ==
  IF userStatus[u] \notin {"approved", "active"}
  THEN [w |-> w, result |-> "not_approved"]
  ELSE IF get_active_vpn_session_for_user(w.s, u) # {}
  THEN [w |-> w, result |-> "already_active"]
  ELSE IF ~dbOk THEN [w |-> w, result |-> "db_error"]
  ELSE LET w1 == [w EXCEPT !.s = [i \in DOMAIN w.s \cup {nextId} |->
                                    IF i = nextId
                                    THEN NewSession(u, name, now + DurationHours(u) * SecondsPerHour)
                                    ELSE w.s[i]]]
           w2 == enable_user_manager_user(w1, name, fail)
       IN [w |-> w2, result |-> IF "identity" \in fail THEN "device_error" ELSE "created"]

\* Faulty variant: the identity is enabled before the grantee is checked
create_vpn_session_enable_first(w, u, name, fail, dbOk) ==
  LET w1 == enable_user_manager_user(w, name, fail)
  IN IF "identity" \in fail THEN [w |-> w1, result |-> "device_error"]
     ELSE IF userStatus[u] \notin {"approved", "active"}
     THEN [w |-> w1, result |-> "not_approved"]
     ELSE IF get_active_vpn_session_for_user(w.s, u) # {}
     THEN [w |-> w1, result |-> "already_active"]
     ELSE IF ~dbOk
     THEN [w |-> disable_user_manager_user(w1, name, fail), result |-> "db_error"]
     ELSE [w |-> [w1 EXCEPT !.s = [i \in DOMAIN w1.s \cup {nextId} |->
                                     IF i = nextId
                                     THEN NewSession(u, name, now + DurationHours(u) * SecondsPerHour)
                                     ELSE w1.s[i]]],
           result |-> "created"]

\* Faulty variant: the identity stays enabled when the row cannot be stored
create_vpn_session_no_revert(w, u, name, fail, dbOk) ==
  IF userStatus[u] \notin {"approved", "active"}
  THEN [w |-> w, result |-> "not_approved"]
  ELSE IF get_active_vpn_session_for_user(w.s, u) # {}
  THEN [w |-> w, result |-> "already_active"]
  ELSE LET w1 == enable_user_manager_user(w, name, fail)
       IN IF "identity" \in fail
          THEN [w |-> w1, result |-> "device_error"]
          ELSE IF ~dbOk
          THEN [w |-> w1, result |-> "db_error"]
          ELSE [w |-> [w1 EXCEPT !.s = [i \in DOMAIN w1.s \cup {nextId} |->
                                          IF i = nextId
                                          THEN NewSession(u, name, now + DurationHours(u) * SecondsPerHour)
                                          ELSE w1.s[i]]],
                result |-> "created"]

\* create_vpn_session: the result and the world it leaves
create_vpn_session(w, u, name, fail, dbOk) ==
  IF userStatus[u] \notin {"approved", "active"}
  THEN [w |-> w, result |-> "not_approved"]
  ELSE IF get_active_vpn_session_for_user(w.s, u) # {}
  THEN [w |-> w, result |-> "already_active"]
  ELSE LET w1 == enable_user_manager_user(w, name, fail)
       IN IF "identity" \in fail
          THEN [w |-> w1, result |-> "device_error"]
          ELSE IF ~dbOk
          THEN [w |-> disable_user_manager_user(w1, name, fail), result |-> "db_error"]
          ELSE [w |-> [w1 EXCEPT !.s = [i \in DOMAIN w1.s \cup {nextId} |->
                                          IF i = nextId
                                          THEN NewSession(u, name, now + DurationHours(u) * SecondsPerHour)
                                          ELSE w1.s[i]]],
                result |-> "created"]

update_vpn_session_status(w, id, new_status) ==
  LET w1 == SetStatus(w, id, new_status)
      s  == w1.s[id]
  IN IF new_status = "connected" /\ s.connected_at = NoTime
     THEN [w1 EXCEPT !.s[id].connected_at = now]
     ELSE IF new_status = "confirmed" /\ s.confirmed_at = NoTime
     THEN [w1 EXCEPT !.s[id].confirmed_at = now]
     ELSE IF new_status = "reminder_sent" /\ s.reminder_sent_at = NoTime
     THEN [w1 EXCEPT !.s[id].reminder_sent_at = now]
     ELSE w1

\* Faulty variant: the connection is stored as a new row
mark_session_as_connected_new_row(w, id) ==
  LET n == Cardinality(DOMAIN w.s) + 1
  IN [w EXCEPT !.s = [i \in DOMAIN w.s \cup {n} |->
                        IF i \in DOMAIN w.s THEN w.s[i]
                        ELSE [w.s[id] EXCEPT !.status = "connected", !.connected_at = now,
                                             !.last_seen_at = now]]]

\* the caller always passes the device's connection id, so last_seen_at is refreshed
mark_session_as_connected(w, id) ==
  [update_vpn_session_status(w, id, "connected") EXCEPT !.s[id].last_seen_at = now]

\* lines 166-182: look the user's rule up by comment and enable it, best effort
EnableBoundRule(w, id, fail) ==
  LET us      == get_user_settings(w.s[id].user_id)
      comment == IF us.present THEN us.firewall_rule_comment ELSE NoComment
  IN IF comment = NoComment THEN w
     ELSE IF "rule" \in fail THEN Call(w, "find_rule", comment, FALSE)
     ELSE LET w1   == Call(w, "find_rule", comment, TRUE)
              rule == RuleByComment(comment)
          IN IF rule = NoRule THEN w1
             ELSE LET w2 == enable_firewall_rule(w1, rule, fail)
                  IN IF "rule" \in fail THEN w2
                     ELSE [w2 EXCEPT !.s[id].firewall_rule_id = rule]

mark_session_as_confirmed(w, id, fail) ==
  LET w1 == update_vpn_session_status(w, id, "confirmed")
      w2 == EnableBoundRule(w1, id, fail)
      w3 == update_vpn_session_status(w2, id, "active")
  IN [w3 EXCEPT !.s[id].expires_at = now + DurationHours(w3.s[id].user_id) * SecondsPerHour]

\* Faulty variant: live connections of the identity are not terminated
DisconnectEffects_no_terminate(w, id, fail) ==
  LET s  == w.s[id]
      w1 == IF s.firewall_rule_id # NoRule
            THEN disable_firewall_rule(w, s.firewall_rule_id, fail) ELSE w
  IN disable_user_manager_user(w1, s.mikrotik_username, fail)

\* Faulty variant: one handler around the three device calls, so that the first
\* failure ends them
DisconnectEffects_one_try(w, id, fail) ==
  LET s  == w.s[id]
      w1 == IF s.firewall_rule_id # NoRule
            THEN disable_firewall_rule(w, s.firewall_rule_id, fail) ELSE w
      w2 == terminate_active_sessions_for_username(w1, s.mikrotik_username, fail)
  IN IF s.firewall_rule_id # NoRule /\ "rule" \in fail THEN w1
     ELSE IF "terminate" \in fail THEN w2
     ELSE disable_user_manager_user(w2, s.mikrotik_username, fail)

\* the side effects of disconnect_vpn_session, lines 231-245
DisconnectEffects(w, id, fail) ==
  LET s  == w.s[id]
      w1 == IF s.firewall_rule_id # NoRule
            THEN disable_firewall_rule(w, s.firewall_rule_id, fail) ELSE w
      w2 == terminate_active_sessions_for_username(w1, s.mikrotik_username, fail)
  IN disable_user_manager_user(w2, s.mikrotik_username, fail)

\* disconnect_vpn_session once the permission check has passed
disconnect_vpn_session(w, id, fail) ==
  DisconnectEffects(SetStatus(w, id, "disconnected"), id, fail)

\* Faulty variant: the device is told but the status is not stored
expire_vpn_session_status_kept(w, id, fail) ==
  LET s  == w.s[id]
      w2 == IF s.firewall_rule_id # NoRule
            THEN disable_firewall_rule(w, s.firewall_rule_id, fail) ELSE w
  IN disable_user_manager_user(w2, s.mikrotik_username, fail)

expire_vpn_session(w, id, fail) ==
  LET w1 == SetStatus(w, id, "expired")
      s  == w1.s[id]
      w2 == IF s.firewall_rule_id # NoRule
            THEN disable_firewall_rule(w1, s.firewall_rule_id, fail) ELSE w1
  IN disable_user_manager_user(w2, s.mikrotik_username, fail)

----------------------------------------------------------------------------
(* State *)

\* no retention run has taken place
RetentionIdle ==
  /\ vpnRows = << >>
  /\ sweep = [ran |-> FALSE, ok |-> FALSE, deleted |-> {}]

Jobs == {"check_vpn_connections", "check_expired_sessions", "cleanup_old_sessions"}

NoRun == [job |-> "", outcome |-> "", interval_seconds |-> 0, grace |-> 0, period |-> 0]

\* no reply and job run are under study
NoRace == [decision |-> "", job |-> "", active |-> FALSE, pc |-> <<>>, row |-> <<>>,
           start |-> <<>>]

\* the scheduler was not started
SchedulerIdle ==
  /\ scheduler = [running |-> FALSE, check_interval_seconds |-> 0]
  /\ inFlight = [j \in Jobs |-> 0]
  /\ deviceConfig = TRUE
  /\ lastRun = NoRun
  /\ race = NoRace

\* no identity is bound to a grantee
BindingsIdle ==
  /\ accounts = {}
  /\ lastBind = [user |-> "", usernames |-> <<>>, result |-> ""]

NoReply == [done |-> FALSE, outcome |-> "", detail |-> "", records |-> {}, source |-> "",
            read |-> <<>>]

\* no parser is under study
ParserIdle ==
  /\ parseInput = [op |-> "", arg |-> <<>>]
  /\ parseOutput = [done |-> FALSE, result |-> <<>>]

\* no adapter operation is under study
AdapterOpsIdle ==
  /\ adapterCall = [op |-> "", transport |-> "", reachable |-> TRUE, dev |-> <<>>,
                    present |-> {}]
  /\ adapterReply = NoReply

AdapterIdle ==
  /\ AdapterOpsIdle
  /\ ParserIdle

ComponentsIdle ==
  /\ RetentionIdle
  /\ SchedulerIdle
  /\ BindingsIdle
  /\ AdapterIdle

Init ==
  /\ ComponentsIdle
  /\ sessions = << >>
  /\ nextId = 1
  /\ idDisabled = [i \in Identities |-> TRUE]
  /\ ruleDisabled = [r \in Rules |-> TRUE]
  /\ \E c \in Configs :
       /\ userStatus = [u \in Users |-> IF u = "u1" THEN "approved" ELSE c.u2status]
       /\ settings = [vpn_require_confirmation |-> c.global,
                      vpn_confirmation_timeout_seconds |-> DefaultConfirmationTimeout,
                      vpn_connection_check_interval_seconds |-> c.interval]
       /\ userSettings = [u \in Users |->
            IF u = "u1" /\ c.u1default THEN DefaultUserSetting
            ELSE IF u = "u1" THEN [DefaultUserSetting EXCEPT !.require_confirmation = c.u1req,
                                                        !.session_duration_hours = 1,
                                                        !.firewall_rule_comment = "c1"]
            ELSE IF c.u2status = "active" THEN NoSettings
            ELSE DefaultUserSetting]
  /\ prompted = {}
  /\ now = 0
  /\ ticks = 0
  /\ steps = 0
  /\ last = [op |-> "init", user |-> "", id |-> 0, arg |-> "", flagged |-> {}, active |-> {},
             fail |-> {}, result |-> "", tr |-> <<>>, calls |-> <<>>, notes |-> <<>>]

CommitStore(w) ==
  /\ sessions' = w.s
  /\ idDisabled' = w.idDis
  /\ ruleDisabled' = w.ruleDis

\* the confirmation prompts sent stay in the chat, with their yes/no buttons,
\* until they are answered
Commit(w) ==
  /\ CommitStore(w)
  /\ prompted' = prompted \cup {w.notes[k].id : k \in {j \in 1..Len(w.notes) :
                                      w.notes[j].kind = "confirmation_required"}}

\* what the handler that just ran was given, returned and did; `steps` counts the
\* handler runs that changed the store, the device or the chat
Record(op, user, id, arg, flagged, active, fail, result, w) ==
  /\ steps < MaxSteps
  /\ steps' = IF \/ op = "reply"
                 \/ w.s # sessions
                 \/ w.idDis # idDisabled
                 \/ w.ruleDis # ruleDisabled
              THEN steps + 1 ELSE steps
  /\ last' = [op |-> op, user |-> user, id |-> id, arg |-> arg, flagged |-> flagged,
              active |-> active, fail |-> fail, result |-> result, tr |-> w.tr, calls |-> w.calls,
              notes |-> w.notes]

----------------------------------------------------------------------------
(* Actions *)

\* the clock advances
Tick ==
  /\ ticks < MaxTicks
  /\ ticks < Len(Instants)
  /\ now' = Instants[ticks + 1]
  /\ ticks' = ticks + 1
  /\ Record("tick", "", 0, "", {}, {}, {}, "", World)
  /\ UNCHANGED <<sessions, nextId, idDisabled, ruleDisabled, userStatus, userSettings,
                 settings, prompted>>
  /\ UNCHANGED componentVars

\* requestGrant: create_vpn_session called by the API endpoint or the bot handler
RequestGrant(u, name, fail, dbOk) ==
  /\ nextId <= MaxSessions
  /\ steps < MaxSteps
  /\ \E r \in {create_vpn_session(World, u, name, fail, dbOk)} :
        /\ Commit(r.w)
        /\ nextId' = IF r.result = "created" THEN nextId + 1 ELSE nextId
        /\ Record("request", u, IF r.result = "created" THEN nextId ELSE 0, name, {}, {}, {},
                  r.result, r.w)
  /\ UNCHANGED <<userStatus, userSettings, settings, now, ticks>>
  /\ UNCHANGED componentVars

\* lines 196-222: anti-flap resurrection of the latest session of each active identity
\* that has no tracked session; `loaded` is connected_sessions, which grows.
\* order_by(desc(created_at)).first(): of two sessions created at the same instant
\* of the model the one created later (the higher id) is the most recent
Latest(S, name) ==
  LET mine   == {i \in DOMAIN S : S[i].mikrotik_username = name}
      newest == {i \in mine : \A j \in mine : S[j].created_at <= S[i].created_at}
  IN IF mine = {} THEN 0
     ELSE CHOOSE i \in newest : \A j \in newest : j <= i

RECURSIVE Resurrect(_, _, _)
Resurrect(wl, order, k) ==
  IF k > Len(order) THEN wl
  ELSE LET w      == wl.w
           name   == order[k]
           latest == Latest(w.s, name)
       IN IF \E j \in 1..Len(wl.loaded) : w.s[wl.loaded[j]].mikrotik_username = name
          THEN Resurrect(wl, order, k + 1)
          ELSE IF latest = 0
          THEN Resurrect(wl, order, k + 1)
          ELSE IF now - w.s[latest].created_at > ResurrectWindowSeconds
          THEN Resurrect(wl, order, k + 1)
          ELSE IF w.s[latest].status = "disconnected"
          THEN LET w1 == SetStatus(w, latest, "connected")
                   w2 == [w1 EXCEPT !.s[latest].connected_at =
                                       IF @ = NoTime THEN now ELSE @,
                                    !.s[latest].last_seen_at = now]
               IN Resurrect([w |-> w2, loaded |-> Append(wl.loaded, latest)],
                            order, k + 1)
          ELSE Resurrect(wl, order, k + 1)

\* lines 250-254 and 279-283
RequireConfirmation(u) ==
  LET user_settings == get_user_settings(u)
  IN IF user_settings.present THEN user_settings.require_confirmation
     ELSE settings.vpn_require_confirmation

\* Faulty variant: the grace window is one poll interval
DisconnectGraceSeconds_one_interval ==
  settings.vpn_connection_check_interval_seconds

\* line 190
DisconnectGraceSeconds ==
  Max(MinGraceSeconds, settings.vpn_connection_check_interval_seconds * 2)

\* Faulty variant: the confirmation wait is measured from the last sighting
ConfirmationTimedOut_since_seen(s) ==
  s.last_seen_at # NoTime
  /\ now - s.last_seen_at > settings.vpn_confirmation_timeout_seconds

\* line 287: the confirmation wait has timed out
ConfirmationTimedOut(s) ==
  s.connected_at # NoTime
  /\ now - s.connected_at > settings.vpn_confirmation_timeout_seconds

\* line 305: the identity was seen recently enough
WithinGrace(s) ==
  LET last_seen == IF s.last_seen_at # NoTime THEN s.last_seen_at ELSE s.connected_at
  IN last_seen # NoTime /\ now - last_seen < DisconnectGraceSeconds

\* Faulty variant: a detected connection is confirmed without asking
ProcessSession_auto_confirm(w, id, active, fail) ==
  LET s == w.s[id]
  IN IF s.mikrotik_username \in active
     THEN LET w1 == [w EXCEPT !.s[id].last_seen_at = now]
          IN IF s.status = "requested"
             THEN Notify(mark_session_as_confirmed(mark_session_as_connected(w1, id), id, fail),
                         "confirmed", id)
             ELSE IF s.status = "connected"
             THEN mark_session_as_confirmed(w1, id, fail)
             ELSE w1
     ELSE IF s.status \in {"connected", "confirmed", "active", "reminder_sent"}
          THEN IF WithinGrace(s) THEN w
               ELSE Notify(disconnect_vpn_session(w, id, fail), "disconnected", id)
          ELSE w

\* lines 225-317: the body of the loop over connected_sessions
ProcessSession(w, id, active, fail) ==
  LET s == w.s[id]
  IN IF s.mikrotik_username \in active
     THEN LET w1 == [w EXCEPT !.s[id].last_seen_at = now]
          IN IF s.status = "requested"
             THEN LET w2 == mark_session_as_connected(w1, id)
                  IN IF RequireConfirmation(s.user_id)
                     THEN Notify(w2, "confirmation_required", id)
                     ELSE Notify(mark_session_as_confirmed(w2, id, fail), "confirmed", id)
             ELSE IF s.status = "connected"
             THEN IF RequireConfirmation(s.user_id)
                  THEN IF ConfirmationTimedOut(s)
                       THEN Notify(disconnect_vpn_session(w1, id, fail), "disconnected", id)
                       ELSE w1
                  ELSE mark_session_as_confirmed(w1, id, fail)
             ELSE w1
     ELSE IF s.status \in {"connected", "confirmed", "active", "reminder_sent"}
          THEN IF WithinGrace(s) THEN w
               ELSE Notify(disconnect_vpn_session(w, id, fail), "disconnected", id)
          ELSE w

\* lines 229-233: the refresh of last_seen_at, committed on its own
RefreshLastSeen(w, id, active) ==
  IF w.s[id].mikrotik_username \in active THEN [w EXCEPT !.s[id].last_seen_at = now] ELSE w

\* the loop over connected_sessions.  The status writes of a session are committed by
\* the session service with no handler of their own around them: when the commit of
\* session dbFail raises, the exception reaches line 319 and ends the run
RECURSIVE ProcessAll(_, _, _, _, _, _)
ProcessAll(w, loaded, k, active, fail, dbFail) ==
  IF k > Len(loaded) THEN [w |-> w, result |-> "done"]
  ELSE LET w1 == ProcessSession(w, loaded[k], active, fail)
       IN IF loaded[k] = dbFail /\ w1.tr # w.tr
          THEN [w |-> RefreshLastSeen(w, loaded[k], active), result |-> "aborted"]
          ELSE ProcessAll(w1, loaded, k + 1, active, fail, dbFail)

\* get_user_manager_sessions when the device answers: the session records of the first
\* listing path that works, each with its user and its active flag; when every listing
\* path raises, the errors are swallowed and the empty list is returned
get_user_manager_sessions(report, fail) ==
  IF "listing" \in fail THEN {}
  ELSE {[user |-> n, active |-> report[n] = "active"] :
          n \in {m \in Identities : report[m] # "none"}}

\* lines 153-179: active_usernames.  The records flagged active count; when there is
\* none, every record counts
ActiveUsernames(sessions_) ==
  LET active_candidates == {s \in sessions_ : s.active}
      candidate == IF active_candidates # {} THEN active_candidates ELSE sessions_
  IN {s.user : s \in candidate}

\* check_vpn_connections, lines 119-322
check_vpn_connections(w, loaded, report, order, fail, dbFail) ==
  IF loaded = <<>> THEN [w |-> w, result |-> "no_sessions"]
  ELSE IF "query" \in fail
  THEN [w |-> Call(w, "list_sessions", "", FALSE), result |-> "query_failed"]
  ELSE LET w1 == Call(w, "list_sessions", "", "listing" \notin fail)
           active == ActiveUsernames(get_user_manager_sessions(report, fail))
           wl == Resurrect([w |-> w1, loaded |-> loaded], order, 1)
       IN ProcessAll(wl.w, wl.loaded, 1, active, fail, dbFail)

\* the identities whose order in the iteration over the set active_usernames matters:
\* those that line 200 does not skip
Untracked(active) ==
  {n \in active : \A i \in DOMAIN sessions :
      sessions[i].mikrotik_username = n => sessions[i].status \notin NonTerminal}

\* the orders in which a query without ORDER BY may return the non-terminal sessions
LoadOrders == Perms({i \in DOMAIN sessions : sessions[i].status \in NonTerminal})

\* the session whose commit raises during a job run: none (0), or the first one loaded
\* when others are loaded after it
DbFails(loaded) == IF Len(loaded) >= 2 THEN {0, loaded[1]} ELSE {0}

\* the connection-check job runs while the device holds the session records `report`
ConnectionCheck(loaded, report, order, fail, dbFail) ==
  /\ steps < MaxSteps
  /\ \E r \in {check_vpn_connections(World, loaded, report, order, fail, dbFail)} :
        /\ Commit(r.w)
        /\ Record("check", "", IF r.result = "aborted" THEN dbFail ELSE 0, "", Flagged(report),
                  ActiveUsernames(get_user_manager_sessions(report, fail)), {},
                  r.result, r.w)
  /\ UNCHANGED <<nextId, userStatus, userSettings, settings, now, ticks>>
  /\ UNCHANGED componentVars

\* check_expired_sessions, lines 324-380; when the commit of session dbFail raises,
\* the exception reaches line 376 and ends the run
RECURSIVE ExpireAll(_, _, _, _, _)
ExpireAll(w, loaded, k, fail, dbFail) ==
  IF k > Len(loaded) THEN [w |-> w, result |-> "done"]
  ELSE LET id == loaded[k]
           s  == w.s[id]
           w1 == IF s.expires_at # NoTime /\ s.expires_at < now
                 THEN Notify(expire_vpn_session(w, id, fail), "expired", id)
                 ELSE IF s.expires_at = NoTime
                 THEN [w EXCEPT !.s[id].expires_at =
                                   s.created_at + DurationHours(s.user_id) * SecondsPerHour]
                 ELSE w
       IN IF id = dbFail /\ w1.s # w.s
          THEN [w |-> w, result |-> "aborted"]
          ELSE ExpireAll(w1, loaded, k + 1, fail, dbFail)

check_expired_sessions(w, loaded, fail, dbFail) == ExpireAll(w, loaded, 1, fail, dbFail)

\* the expiry-check job runs
ExpiryCheck(loaded, fail, dbFail) ==
  /\ steps < MaxSteps
  /\ \E r \in {check_expired_sessions(World, loaded, fail, dbFail)} :
        /\ Commit(r.w)
        /\ Record("expiry", "", IF r.result = "aborted" THEN dbFail ELSE 0, "", {}, {}, {},
                  r.result, r.w)
  /\ UNCHANGED <<nextId, userStatus, userSettings, settings, now, ticks>>
  /\ UNCHANGED componentVars

check_user_registered(u) == userStatus[u] \in {"approved", "active"}

\* Faulty variant: the reply of any registered user is accepted
handle_session_confirmation_any_user(w, u, id, decision, fail) ==
  IF ~check_user_registered(u) THEN [w |-> w, result |-> "not_registered"]
  ELSE IF id \notin DOMAIN w.s THEN [w |-> w, result |-> "not_yours"]
  ELSE IF decision = "no"
  THEN [w |-> disconnect_vpn_session(w, id, fail), result |-> "disconnected"]
  ELSE [w |-> mark_session_as_confirmed(w, id, fail), result |-> "confirmed"]

\* bot.py lines 181-189 and _handle_session_confirmation
handle_session_confirmation(w, u, id, decision, fail) ==
  IF ~check_user_registered(u) THEN [w |-> w, result |-> "not_registered"]
  ELSE IF id \notin DOMAIN w.s \/ w.s[id].user_id # u
  THEN [w |-> w, result |-> "not_yours"]
  ELSE IF decision = "no"
  THEN [w |-> disconnect_vpn_session(w, id, fail), result |-> "disconnected"]
  ELSE [w |-> mark_session_as_confirmed(w, id, fail), result |-> "confirmed"]

\* a confirmation prompt is answered; edit_message_text replaces the prompt
ConfirmReply(u, id, decision, fail) ==
  /\ steps < MaxSteps
  /\ \E r \in {handle_session_confirmation(World, u, id, decision, fail)} :
        /\ CommitStore(r.w)
        /\ prompted' = prompted \ {id}
        /\ Record("reply", u, id, decision, {}, {}, {}, r.result, r.w)
  /\ UNCHANGED <<nextId, userStatus, userSettings, settings, now, ticks>>
  /\ UNCHANGED componentVars

\* disconnect_vpn_session with its permission check (lines 219-225), called by
\* _handle_session_disconnect (caller = a user) or by the API endpoint (caller = "admin")
handle_session_disconnect(w, caller, id, fail) ==
  IF caller # "admin" /\ ~check_user_registered(caller)
  THEN [w |-> w, result |-> "not_registered"]
  ELSE IF id \notin DOMAIN w.s THEN [w |-> w, result |-> "not_found"]
  ELSE IF caller # "admin" /\ w.s[id].user_id # caller
  THEN [w |-> w, result |-> "no_permission"]
  ELSE [w |-> disconnect_vpn_session(w, id, fail), result |-> "disconnected"]

\* a manual disconnect request
Disconnect(caller, id, fail) ==
  /\ steps < MaxSteps
  /\ \E r \in {handle_session_disconnect(World, caller, id, fail)} :
        /\ Commit(r.w)
        /\ Record("disconnect", caller, id, "", {}, {}, {}, r.result, r.w)
  /\ UNCHANGED <<nextId, userStatus, userSettings, settings, now, ticks>>
  /\ UNCHANGED componentVars

\* Faulty variant: a grant is extended whatever its status
extend_session_any_status(w, id, hours) ==
  IF id \notin DOMAIN w.s THEN [w |-> w, result |-> "not_found"]
  ELSE LET us == get_user_settings(w.s[id].user_id)
           h  == IF hours # 0 THEN hours
                 ELSE IF us.present THEN us.reminder_interval_hours ELSE DefaultReminderHours
           w1 == [w EXCEPT !.s[id].expires_at = now + h * SecondsPerHour]
           w2 == SetStatus(w1, id, "active")
       IN [w |-> [w2 EXCEPT !.s[id].reminder_sent_at = NoTime], result |-> "extended"]

\* extend_session, lines 380-404; hours = 0 stands for "no hours argument"
extend_session(w, id, hours) ==
  IF id \notin DOMAIN w.s THEN [w |-> w, result |-> "not_found"]
  ELSE IF w.s[id].status \notin {"active", "reminder_sent"}
  THEN [w |-> w, result |-> "invalid_state"]
  ELSE LET us == get_user_settings(w.s[id].user_id)
           h  == IF hours # 0 THEN hours
                 ELSE IF us.present THEN us.reminder_interval_hours ELSE DefaultReminderHours
           w1 == [w EXCEPT !.s[id].expires_at = now + h * SecondsPerHour]
           w2 == SetStatus(w1, id, "active")
       IN [w |-> [w2 EXCEPT !.s[id].reminder_sent_at = NoTime], result |-> "extended"]

\* the hours argument of extendGrant: none (0), or an explicit number of hours
ExtendHours == {0, 1}

\* extendGrant
ExtendGrant(id, hours) ==
  /\ steps < MaxSteps
  /\ \E r \in {extend_session(World, id, hours)} :
        /\ Commit(r.w)
        /\ Record("extend", "", id, IF hours = 0 THEN "default" ELSE "hours", {}, {}, {},
                  r.result, r.w)
  /\ UNCHANGED <<nextId, userStatus, userSettings, settings, now, ticks>>
  /\ UNCHANGED componentVars

Next ==
  \/ Tick
  \/ \E u \in Users, name \in Identities, fail \in FailSets, dbOk \in BOOLEAN :
       (fail = {} \/ dbOk) /\ RequestGrant(u, name, fail, dbOk)
  \/ /\ steps < MaxSteps
     /\ \E loaded \in LoadOrders, report \in Reports, fail \in CheckFailSets :
          /\ "query" \in fail => \A n \in Identities : report[n] = "none"
          /\ "listing" \in fail => Flagged(report) # {}
          /\ \E order \in Perms(Untracked(ActiveUsernames(get_user_manager_sessions(report, fail)))),
                dbFail \in DbFails(loaded) :
               (dbFail # 0 => fail = {} /\ Flagged(report) # {})
               /\ ConnectionCheck(loaded, report, order, fail, dbFail)
  \/ /\ steps < MaxSteps
     /\ \E loaded \in LoadOrders, fail \in FailSets :
          \E dbFail \in DbFails(loaded) :
            (dbFail # 0 => fail = {}) /\ ExpiryCheck(loaded, fail, dbFail)
  \/ \E u \in Users, id \in prompted, decision \in {"yes", "no"},
        fail \in FailSets : ConfirmReply(u, id, decision, fail)
  \/ \E caller \in Users \cup {"admin"}, id \in DOMAIN sessions,
        fail \in FailSets : Disconnect(caller, id, fail)
  \/ \E id \in DOMAIN sessions, hours \in ExtendHours : ExtendGrant(id, hours)

Spec == Init /\ [][Next]_vars

\* A store the program reaches from Init and in which anti-flap resurrection applies:
\* at time 0 requestGrant(u1, a1) created grant 1, a connection check found a1 active
\* (grant 1 became CONNECTED and was prompted for, or was confirmed at once, as u1's
\* settings decide), and grant 1 was then disconnected by hand.  SeedSteps of the
\* MaxSteps handler runs that change the store are counted as spent on the way
SeedWorld ==
  LET w0 == [s |-> [i \in {1} |->
                      NewSession("u1", "a1", now + DurationHours("u1") * SecondsPerHour)],
             idDis |-> [i \in Identities |-> i # "a1"],
             ruleDis |-> [r \in Rules |-> TRUE],
             tr |-> <<>>, calls |-> <<>>, notes |-> <<>>]
  IN disconnect_vpn_session(ProcessSession(w0, 1, {"a1"}, {}), 1, {})

InitStores ==
  /\ ComponentsIdle
  /\ now = 0
  /\ ticks = 0
  /\ steps = SeedSteps
  /\ \E c \in Configs :
       /\ userStatus = [u \in Users |-> IF u = "u1" THEN "approved" ELSE c.u2status]
       /\ settings = [vpn_require_confirmation |-> c.global,
                      vpn_confirmation_timeout_seconds |-> DefaultConfirmationTimeout,
                      vpn_connection_check_interval_seconds |-> c.interval]
       /\ userSettings = [u \in Users |->
            IF u = "u1" /\ c.u1default THEN DefaultUserSetting
            ELSE IF u = "u1" THEN [DefaultUserSetting EXCEPT !.require_confirmation = c.u1req,
                                                        !.session_duration_hours = 1,
                                                        !.firewall_rule_comment = "c1"]
            ELSE IF c.u2status = "active" THEN NoSettings
            ELSE DefaultUserSetting]
  /\ sessions = SeedWorld.s
  /\ nextId = 2
  /\ idDisabled = SeedWorld.idDis
  /\ ruleDisabled = SeedWorld.ruleDis
  /\ prompted = {SeedWorld.notes[k].id : k \in {j \in 1..Len(SeedWorld.notes) :
                                      SeedWorld.notes[j].kind = "confirmation_required"}}
  /\ last = [op |-> "init", user |-> "", id |-> 0, arg |-> "", flagged |-> {}, active |-> {},
             fail |-> {}, result |-> "", tr |-> <<>>, calls |-> <<>>, notes |-> <<>>]

\* the program started in such a store
SpecStores == InitStores /\ [][Next]_vars

----------------------------------------------------------------------------
(* Retention job *)

\* the grant variables of a store in which no grant was ever requested
GrantsIdle ==
  /\ sessions = << >>
  /\ nextId = 1
  /\ idDisabled = [i \in Identities |-> TRUE]
  /\ ruleDisabled = [r \in Rules |-> TRUE]
  /\ userStatus = [u \in Users |-> "approved"]
  /\ userSettings = [u \in Users |-> DefaultUserSetting]
  /\ prompted = {}
  /\ ticks = 0
  /\ steps = 0
  /\ last = [op |-> "init", user |-> "", id |-> 0, arg |-> "", flagged |-> {}, active |-> {},
             fail |-> {}, result |-> "", tr |-> <<>>, calls |-> <<>>, notes |-> <<>>]

DefaultSettings ==
  [vpn_require_confirmation |-> FALSE,
   vpn_confirmation_timeout_seconds |-> DefaultConfirmationTimeout,
   vpn_connection_check_interval_seconds |-> DefaultCheckInterval]

\* timedelta(days=30)
RetentionSeconds == RetentionDays * 24 * SecondsPerHour

\* the values of updated_at in the table, and the instants at which the job runs:
\* a row stamped 0 is exactly 30 days old at the first instant and older at the others
RowStamps == {0, 1, RetentionSeconds}

SweepInstants == {RetentionSeconds, RetentionSeconds + 1, 2 * RetentionSeconds}

\* the tables of at most MaxRows rows
Tables ==
  UNION {[ids -> [status : VPNSessionStatus, updated_at : RowStamps]] :
           ids \in SUBSET (1..MaxRows)}

\* lines 441-449: the rows the job selects for deletion at time t
old_sessions(rows, t) ==
  {id \in DOMAIN rows : /\ rows[id].status = "disconnected"
                        /\ rows[id].updated_at < t - RetentionSeconds}

\* cleanup_old_sessions: the selected rows are deleted and the deletion is committed;
\* when the commit raises, the transaction is rolled back
CleanupOldSessions(dbOk) ==
  /\ ~sweep.ran
  /\ LET old == old_sessions(vpnRows, now)
     IN /\ vpnRows' = IF dbOk THEN [id \in DOMAIN vpnRows \ old |-> vpnRows[id]]
                      ELSE vpnRows
        /\ sweep' = [ran |-> TRUE, ok |-> dbOk, deleted |-> IF dbOk THEN old ELSE {}]
  /\ UNCHANGED <<grantVars, settings, now, schedulerVars, bindingVars, adapterVars>>

InitRetention ==
  /\ GrantsIdle
  /\ AdapterIdle
  /\ SchedulerIdle
  /\ BindingsIdle
  /\ settings = DefaultSettings
  /\ now \in SweepInstants
  /\ vpnRows \in Tables
  /\ sweep = [ran |-> FALSE, ok |-> FALSE, deleted |-> {}]

NextRetention == \E dbOk \in BOOLEAN : CleanupOldSessions(dbOk)

\* the retention job runs once on a table
SpecRetention == InitRetention /\ [][NextRetention]_vars

----------------------------------------------------------------------------
(* Scheduler *)

\* the values the stored poll interval takes
IntervalValues == {30, 60, 120}

\* SchedulerService.start, called by startup_event: the jobs are added with the
\* interval the settings store holds at that moment
StartScheduler ==
  /\ ~scheduler.running
  /\ scheduler' = [running |-> TRUE,
                   check_interval_seconds |-> settings.vpn_connection_check_interval_seconds]
  /\ UNCHANGED <<grantVars, settings, now, retentionVars, bindingVars, adapterVars,
                 inFlight, deviceConfig, lastRun, race>>

\* set_setting: an administrator stores another poll interval
SetSetting(v) ==
  /\ v # settings.vpn_connection_check_interval_seconds
  /\ settings' = [settings EXCEPT !.vpn_connection_check_interval_seconds = v]
  /\ UNCHANGED <<grantVars, now, retentionVars, bindingVars, adapterVars, schedulerVars>>

\* the numbers of notifications a run may have to await: the retention job sends
\* none, and a connection check that cannot query the device returns before its loop
Awaits(j) ==
  IF j = "cleanup_old_sessions" THEN {0}
  ELSE IF j = "check_vpn_connections" /\ ~deviceConfig THEN {0}
  ELSE 0..MaxNotes

\* the trigger of job j fires.  The executor starts no second instance of a job
\* (max_instances is 1) and runs each job as a task of the event loop: the run
\* executes up to its first `await notify_...` and is suspended there
TriggerJob(j, n) ==
  /\ scheduler.running
  /\ n \in Awaits(j)
  /\ IF inFlight[j] > 0
     THEN /\ n = 0
          /\ inFlight' = inFlight
          /\ lastRun' = [NoRun EXCEPT !.job = j, !.outcome = "skipped"]
     ELSE /\ inFlight' = [inFlight EXCEPT ![j] = n]
          /\ lastRun' =
               IF j # "check_vpn_connections"
               THEN [NoRun EXCEPT !.job = j, !.outcome = "ran"]
               ELSE IF ~deviceConfig
               THEN [NoRun EXCEPT !.job = j, !.outcome = "query_failed",
                                  !.period = scheduler.check_interval_seconds]
               ELSE [job |-> j, outcome |-> "ran",
                     interval_seconds |-> settings.vpn_connection_check_interval_seconds,
                     grace |-> DisconnectGraceSeconds,
                     period |-> scheduler.check_interval_seconds]
  /\ UNCHANGED <<grantVars, settings, now, retentionVars, bindingVars, adapterVars,
                 scheduler, deviceConfig, race>>

\* the notification a suspended run awaits has been sent: the run goes on to its
\* next await, or to its end
ResumeJob(j) ==
  /\ inFlight[j] > 0
  /\ inFlight' = [inFlight EXCEPT ![j] = @ - 1]
  /\ UNCHANGED <<grantVars, settings, now, retentionVars, bindingVars, adapterVars,
                 scheduler, deviceConfig, lastRun, race>>

InitScheduler ==
  /\ GrantsIdle
  /\ AdapterIdle
  /\ RetentionIdle
  /\ BindingsIdle
  /\ settings = DefaultSettings
  /\ now = 0
  /\ scheduler = [running |-> FALSE, check_interval_seconds |-> 0]
  /\ inFlight = [j \in Jobs |-> 0]
  /\ deviceConfig \in BOOLEAN
  /\ lastRun = NoRun
  /\ race = NoRace

NextScheduler ==
  \/ StartScheduler
  \/ \E v \in IntervalValues : SetSetting(v)
  \/ \E j \in Jobs, n \in 0..MaxNotes : TriggerJob(j, n)
  \/ \E j \in Jobs : ResumeJob(j)

\* the process starts, with or without a device configuration, and its jobs run
SpecScheduler == InitScheduler /\ [][NextScheduler]_vars

----------------------------------------------------------------------------
(* Bindings of device identities to grantees *)

\* the grantees a request may name; "u9" is not in the users table
BindUsers == Users \cup {"u9"}

BindNames == {"a1", "a2", "a3"}

\* the strings a request may carry: names, a name with a blank before it, and the
\* empty string
RawNames == BindNames \cup {" a1", ""}

\* str(u).strip()
Strip(u) == IF u = " a1" THEN "a1" ELSE u

\* lines 33-41: the names stripped, the empty ones dropped, each kept once, in order
RECURSIVE Cleaned(_, _)
Cleaned(usernames, k) ==
  IF k = 0 THEN <<>>
  ELSE LET before == Cleaned(usernames, k - 1)
           u      == Strip(usernames[k])
       IN IF u = "" \/ u \in SeqToSet(before) THEN before ELSE Append(before, u)

\* the identity lists the device may return (get_mikrotik_users_with_info)
DeviceListings == {BindNames, {"a1", "a2"}}

\* Faulty variant: the number of names is not limited
set_user_mikrotik_usernames_any_number(user_id, usernames, reachable, listed, dbOk) ==
  LET cleaned == Cleaned(usernames, Len(usernames))
      desired == SeqToSet(cleaned)
      current == {a \in accounts : a.user_id = user_id}
      kept    == {a \in current : a.mikrotik_username \in desired}
      added   == {[user_id |-> user_id, mikrotik_username |-> u, is_active |-> TRUE] :
                    u \in {d \in desired : \A a \in current :
                                              ~(a.mikrotik_username = d /\ a.is_active)}}
  IN IF user_id \notin Users THEN [accounts |-> accounts, result |-> "user_not_found"]
     ELSE IF cleaned # <<>> /\ ~reachable
     THEN [accounts |-> accounts, result |-> "device_error"]
     ELSE IF cleaned # <<>> /\ ~(desired \subseteq listed)
     THEN [accounts |-> accounts, result |-> "missing_on_device"]
     ELSE IF \E a \in accounts : a.mikrotik_username \in desired /\ a.user_id # user_id
     THEN [accounts |-> accounts, result |-> "bound_to_other"]
     ELSE IF ~dbOk THEN [accounts |-> accounts, result |-> "db_error"]
     ELSE [accounts |-> (accounts \ current) \cup kept \cup added, result |-> "ok"]

\* set_user_mikrotik_usernames: the new table and the outcome (an outcome other than
\* "ok" is a raised ValueError, or the exception of a failed commit)
set_user_mikrotik_usernames(user_id, usernames, reachable, listed, dbOk) ==
  LET cleaned == Cleaned(usernames, Len(usernames))
      desired == SeqToSet(cleaned)
      current == {a \in accounts : a.user_id = user_id}
      kept    == {a \in current : a.mikrotik_username \in desired}
      added   == {[user_id |-> user_id, mikrotik_username |-> u, is_active |-> TRUE] :
                    u \in {d \in desired : \A a \in current :
                                              ~(a.mikrotik_username = d /\ a.is_active)}}
  IN IF user_id \notin Users THEN [accounts |-> accounts, result |-> "user_not_found"]
     ELSE IF Len(cleaned) > 2 THEN [accounts |-> accounts, result |-> "too_many"]
     ELSE IF cleaned # <<>> /\ ~reachable
     THEN [accounts |-> accounts, result |-> "device_error"]
     ELSE IF cleaned # <<>> /\ ~(desired \subseteq listed)
     THEN [accounts |-> accounts, result |-> "missing_on_device"]
     ELSE IF \E a \in accounts : a.mikrotik_username \in desired /\ a.user_id # user_id
     THEN [accounts |-> accounts, result |-> "bound_to_other"]
     ELSE IF ~dbOk THEN [accounts |-> accounts, result |-> "db_error"]
     ELSE [accounts |-> (accounts \ current) \cup kept \cup added, result |-> "ok"]

\* a binding request is served
SetUsernames(user_id, usernames, reachable, listed, dbOk) ==
  /\ \E r \in {set_user_mikrotik_usernames(user_id, usernames, reachable, listed, dbOk)} :
        /\ accounts' = r.accounts
        /\ lastBind' = [user |-> user_id, usernames |-> Cleaned(usernames, Len(usernames)),
                        result |-> r.result]
  /\ UNCHANGED <<grantVars, settings, now, retentionVars, schedulerVars, adapterVars>>

InitBindings ==
  /\ GrantsIdle
  /\ AdapterIdle
  /\ RetentionIdle
  /\ SchedulerIdle
  /\ settings = DefaultSettings
  /\ now = 0
  /\ BindingsIdle

NextBindings ==
  \E user_id \in BindUsers, len \in 0..MaxUsernames, reachable \in BOOLEAN,
     listed \in DeviceListings, dbOk \in BOOLEAN :
    /\ (~reachable \/ ~dbOk) => listed = BindNames
    /\ reachable \/ dbOk
    /\ \E usernames \in [1..len -> RawNames] :
         SetUsernames(user_id, usernames, reachable, listed, dbOk)

\* binding requests arrive in any order
SpecBindings == InitBindings /\ [][NextBindings]_vars

----------------------------------------------------------------------------
(* Device adapter (mikrotik_service) *)

\* What the device does with one request of an operation:
\*   "raises"        RouterOS API: the path raises (a trap: the menu does not exist);
\*                   shell: the command writes to stderr, execute_command raises
\*   "error_text"    shell: the primary output is a failure text, such as
\*                   "bad command name ..." or "failure: ..."
\*   "late_failure"  shell: the primary output holds records and then a line
\*                   "failure: ..."
\*   "empty"         no record (shell: empty output)
\*   "records"       records
ApiAnswers == {"raises", "empty", "records"}

SshAnswers == {"raises", "error_text", "late_failure", "empty", "records"}

Answers(transport) == IF transport = "api" THEN ApiAnswers ELSE SshAnswers

\* the output contains one of the failure phrases the device is known to print
HasFailurePhrase(answer) == answer \in {"error_text", "late_failure"}

\* lines 433-447: the phrases are searched anywhere in the output, "failure:" only at
\* its beginning
is_routeros_cli_error_output(answer) == answer = "error_text"

\* the parsers (_parse_user_manager_output, _parse_ppp_print_detail_output,
\* _parse_firewall_output) keep the lines that hold key=value pairs: a failure text
\* yields no record; the records are tagged with the path they were read from
Parse(answer, path) == IF answer \in {"records", "late_failure"} THEN {path} ELSE {}

Failed(detail, read) ==
  [done |-> TRUE, outcome |-> "MikroTikConnectionError", detail |-> detail, records |-> {},
   source |-> "", read |-> read]

Returned(records, source, read) ==
  [done |-> TRUE, outcome |-> "ok", detail |-> "", records |-> records, source |-> source,
   read |-> read]

\* the menus of the identity operations: User Manager (RouterOS 7), User Manager
\* under /tool (RouterOS 6), PPP secrets
IdentityPaths == {"um", "um_old", "ppp"}

\* get_mikrotik_users_with_info over the RouterOS API, lines 330-365
Api_get_mikrotik_users_with_info(c) ==
  IF ~c.reachable THEN Failed("connect", <<>>)
  ELSE IF c.dev["um"] = "raises" /\ c.dev["um_old"] = "raises"
  THEN Failed("device", <<c.dev["um"], c.dev["um_old"]>>)
  ELSE LET path == IF c.dev["um"] # "raises" THEN "um" ELSE "um_old"
           read == IF path = "um" THEN <<c.dev["um"]>> ELSE <<c.dev["um"], c.dev["um_old"]>>
       IN IF c.dev[path] = "records" THEN Returned({path}, "user_manager", read)
          ELSE IF c.dev["ppp"] = "raises" THEN Failed("device", Append(read, c.dev["ppp"]))
          ELSE Returned(Parse(c.dev["ppp"], "ppp"), "ppp_secret", Append(read, c.dev["ppp"]))

\* get_mikrotik_users_with_info over SSH, lines 366-402
Ssh_get_mikrotik_users_with_info(c) ==
  LET a1 == c.dev["um"]
      a2 == c.dev["um_old"]
      a3 == c.dev["ppp"]
  IN IF ~c.reachable THEN Failed("connect", <<>>)
     ELSE IF a1 = "raises" THEN Failed("device", <<a1>>)
     ELSE IF ~is_routeros_cli_error_output(a1)
     THEN Returned(Parse(a1, "um"), "user_manager", <<a1>>)
     ELSE IF a2 = "raises" THEN Failed("device", <<a1, a2>>)
     ELSE IF ~is_routeros_cli_error_output(a2)
     THEN Returned(Parse(a2, "um_old"), "user_manager", <<a1, a2>>)
     ELSE IF a3 = "raises" THEN Failed("device", <<a1, a2, a3>>)
     ELSE Returned(Parse(a3, "ppp"), "ppp_secret", <<a1, a2, a3>>)

\* the calls of get_mikrotik_users_with_info: a device has User Manager under one of
\* its two menus at most
ListIdentityCalls ==
  {c \in UNION {[op : {"list_identities"}, transport : {tr}, reachable : BOOLEAN,
                 dev : [IdentityPaths -> Answers(tr)], present : {{}}] :
                  tr \in {"api", "ssh"}} :
     /\ c.dev["um"] \in {"raises", "error_text"} \/ c.dev["um_old"] \in {"raises", "error_text"}
     /\ ~c.reachable => \A q \in IdentityPaths : c.dev[q] = "records"}

ListIdentities ==
  /\ adapterCall.op = "list_identities"
  /\ ~adapterReply.done
  /\ adapterReply' = IF adapterCall.transport = "api"
                     THEN Api_get_mikrotik_users_with_info(adapterCall)
                     ELSE Ssh_get_mikrotik_users_with_info(adapterCall)
  /\ UNCHANGED <<grantVars, settings, now, retentionVars, schedulerVars, bindingVars,
                 adapterCall, parserVars>>

\* what a command that changes the device prints: nothing when it is accepted (also
\* when its [find ...] matches no item), a failure text, or it writes to stderr
CommandAnswers == {"raises", "error_text", "empty"}

\* get_firewall_rules over SSH, lines 745-767: the output of the print command goes
\* to the parser as it is
Ssh_get_firewall_rules(c) ==
  LET a == c.dev["filter"]
  IN IF ~c.reachable THEN Failed("connect", <<>>)
     ELSE IF a = "raises" THEN Failed("device", <<a>>)
     ELSE Returned(Parse(a, "filter"), "", <<a>>)

\* enable_firewall_rule and disable_firewall_rule over SSH, lines 868-887 and 909-927:
\* the output of the command is not read
Ssh_set_firewall_rule_disabled(c) ==
  LET a == c.dev["filter"]
  IN IF ~c.reachable THEN Failed("connect", <<>>)
     ELSE IF a = "raises" THEN Failed("device", <<a>>)
     ELSE Returned({}, "", <<a>>)

\* the outputs read when the commands of paths are run in order until one raises or
\* prints something that is not a failure text
RECURSIVE ReadChain(_, _, _)
ReadChain(dev, paths, read) ==
  IF paths = <<>> THEN read
  ELSE LET a == dev[Head(paths)]
       IN IF a = "raises" \/ ~is_routeros_cli_error_output(a) THEN Append(read, a)
          ELSE ReadChain(dev, Tail(paths), Append(read, a))

\* set_user_manager_user_disabled over the RouterOS API, lines 1211-1243: the records
\* touched are the menu where the identity was found
Api_set_user_manager_user_disabled(c) ==
  LET found == {q \in {"um", "um_old"} : c.dev[q] # "raises" /\ q \in c.present}
      um_read == <<c.dev["um"], c.dev["um_old"]>>
  IN IF ~c.reachable THEN Failed("connect", <<>>)
     ELSE IF "um" \in found THEN Returned({"um"}, "", <<c.dev["um"]>>)
     ELSE IF "um_old" \in found THEN Returned({"um_old"}, "", um_read)
     ELSE IF c.dev["ppp"] = "raises" THEN Failed("device", Append(um_read, c.dev["ppp"]))
     ELSE IF "ppp" \in c.present THEN Returned({"ppp"}, "", Append(um_read, c.dev["ppp"]))
     ELSE Failed("not_found", Append(um_read, c.dev["ppp"]))

IdentityChain == <<"um", "um_old", "ppp">>

\* set_user_manager_user_disabled over SSH, lines 1245-1271
Ssh_set_user_manager_user_disabled(c) ==
  LET read == ReadChain(c.dev, IdentityChain, <<>>)
      a == read[Len(read)]
      path == IdentityChain[Len(read)]
  IN IF ~c.reachable THEN Failed("connect", <<>>)
     ELSE IF a = "raises" THEN Failed("device", read)
     ELSE IF is_routeros_cli_error_output(a) THEN Failed("error_text", read)
     ELSE Returned({path} \cap c.present, "", read)

SessionChain == <<"um_active", "um_all", "um_old_active", "um_old_all">>

SessionPaths == {"um_active", "um_all", "um_old_active", "um_old_all", "ppp_active"}

\* get_user_manager_sessions over SSH, lines 1156-1201
Ssh_get_user_manager_sessions(c) ==
  LET read == ReadChain(c.dev, SessionChain, <<>>)
      a == read[Len(read)]
      um == IF is_routeros_cli_error_output(a) THEN {}
            ELSE Parse(a, SessionChain[Len(read)])
      a5 == c.dev["ppp_active"]
      ppp == IF is_routeros_cli_error_output(a5) THEN {} ELSE Parse(a5, "ppp_active")
  IN IF ~c.reachable THEN Failed("connect", <<>>)
     ELSE IF a = "raises" THEN Failed("device", read)
     ELSE IF a5 = "raises" THEN Failed("device", Append(read, a5))
     ELSE Returned(um \cup ppp, "", Append(read, a5))

TerminatePaths == {"ppp_name", "ppp_user", "um", "um_old"}

\* terminate_active_sessions_for_username over SSH, lines 1376-1391: the output of
\* the second command of each pair is not read
Ssh_terminate_active_sessions_for_username(c) ==
  LET ppp == ReadChain(c.dev, <<"ppp_name", "ppp_user">>, <<>>)
      um == ReadChain(c.dev, <<"um", "um_old">>, <<>>)
  IN IF ~c.reachable THEN Failed("connect", <<>>)
     ELSE IF ppp[Len(ppp)] = "raises" THEN Failed("device", ppp)
     ELSE IF um[Len(um)] = "raises" THEN Failed("device", ppp \o um)
     ELSE Returned({}, "", ppp \o um)

\* the calls of an operation op whose commands go to the menus paths and print one of
\* answers; an unreachable device answers nothing, so one device stands for all
SshCalls(op, paths, answers) ==
  {c \in [op : {op}, transport : {"ssh"}, reachable : BOOLEAN, dev : [paths -> answers],
          present : {{}}] :
     ~c.reachable => \A q \in paths : c.dev[q] = "empty"}

\* the calls of set_user_manager_user_disabled: the identity is present on menus that
\* the device supports
SetIdentityCalls ==
  {c \in UNION {[op : {"set_identity_disabled"}, transport : {tr}, reachable : BOOLEAN,
                 dev : [IdentityPaths -> IF tr = "api" THEN ApiAnswers ELSE CommandAnswers],
                 present : SUBSET IdentityPaths] : tr \in {"api", "ssh"}} :
     /\ \A q \in c.present : c.dev[q] = IF c.transport = "api" THEN "records" ELSE "empty"
     /\ ~c.reachable => /\ c.present = IdentityPaths
                        /\ \A q \in IdentityPaths : c.dev[q] # "raises"}

\* an operation op of the adapter answers the call under study
AdapterStep(op, reply) ==
  /\ adapterCall.op = op
  /\ ~adapterReply.done
  /\ adapterReply' = reply
  /\ UNCHANGED <<grantVars, settings, now, retentionVars, schedulerVars, bindingVars,
                 adapterCall, parserVars>>

ListRules == AdapterStep("list_rules", Ssh_get_firewall_rules(adapterCall))

SetRuleDisabled == AdapterStep("set_rule_disabled", Ssh_set_firewall_rule_disabled(adapterCall))

SetIdentityDisabled ==
  AdapterStep("set_identity_disabled",
              IF adapterCall.transport = "api"
              THEN Api_set_user_manager_user_disabled(adapterCall)
              ELSE Ssh_set_user_manager_user_disabled(adapterCall))

ListSessions == AdapterStep("list_sessions", Ssh_get_user_manager_sessions(adapterCall))

TerminateSessions ==
  AdapterStep("terminate", Ssh_terminate_active_sessions_for_username(adapterCall))

AdapterCalls ==
  ListIdentityCalls \cup SetIdentityCalls
    \cup SshCalls("list_rules", {"filter"}, SshAnswers)
    \cup SshCalls("set_rule_disabled", {"filter"}, CommandAnswers)
    \cup SshCalls("list_sessions", SessionPaths, SshAnswers)
    \cup SshCalls("terminate", TerminatePaths, CommandAnswers)

InitAdapter ==
  /\ GrantsIdle
  /\ RetentionIdle
  /\ SchedulerIdle
  /\ BindingsIdle
  /\ settings = DefaultSettings
  /\ now = 0
  /\ adapterCall \in AdapterCalls
  /\ adapterReply = NoReply
  /\ ParserIdle

NextAdapter ==
  \/ ListIdentities
  \/ ListRules
  \/ SetRuleDisabled
  \/ SetIdentityDisabled
  \/ ListSessions
  \/ TerminateSessions

\* one adapter operation is called on a device
SpecAdapter == InitAdapter /\ [][NextAdapter]_vars

----------------------------------------------------------------------------
(* Shell output parsers (mikrotik_service) *)

\* A text is the sequence of its characters.  A value of a parsed record is None,
\* a boolean or a text
None == [kind |-> "none", b |-> FALSE, s |-> <<>>]

Bool(b) == [kind |-> "bool", b |-> b, s |-> <<>>]

Str(s) == [kind |-> "str", b |-> FALSE, s |-> s]

UpperLetters == <<"A", "B", "D", "E", "F", "L", "N", "O", "R", "S", "T", "U", "Y">>

LowerLetters == <<"a", "b", "d", "e", "f", "l", "n", "o", "r", "s", "t", "u", "y">>

\* str.lower and str.upper, character by character
lower(s) ==
  [i \in 1..Len(s) |->
     IF \E j \in 1..Len(UpperLetters) : UpperLetters[j] = s[i]
     THEN LowerLetters[CHOOSE j \in 1..Len(UpperLetters) : UpperLetters[j] = s[i]]
     ELSE s[i]]

upper(s) ==
  [i \in 1..Len(s) |->
     IF \E j \in 1..Len(LowerLetters) : LowerLetters[j] = s[i]
     THEN UpperLetters[CHOOSE j \in 1..Len(LowerLetters) : LowerLetters[j] = s[i]]
     ELSE s[i]]

\* str.strip
RECURSIVE strip(_)
strip(s) ==
  IF s = <<>> THEN s
  ELSE IF Head(s) = " " THEN strip(Tail(s))
  ELSE IF s[Len(s)] = " " THEN strip(SubSeq(s, 1, Len(s) - 1))
  ELSE s

TrueTexts == {<<"t", "r", "u", "e">>, <<"y", "e", "s">>, <<"e", "n", "a", "b", "l", "e", "d">>,
              <<"e", "n", "a", "b", "l", "e">>, <<"1">>}

FalseTexts == {<<"f", "a", "l", "s", "e">>, <<"n", "o">>,
               <<"d", "i", "s", "a", "b", "l", "e", "d">>,
               <<"d", "i", "s", "a", "b", "l", "e">>, <<"0">>}

\* _normalize_bool, lines 467-480
normalize_bool(value) ==
  IF value.kind = "none" THEN None
  ELSE IF value.kind = "bool" THEN value
  ELSE LET s == lower(strip(value.s))
       IN IF s \in TrueTexts THEN Bool(TRUE)
          ELSE IF s \in FalseTexts THEN Bool(FALSE)
          ELSE None

\* A line of output, stripped, is the sequence of its tokens: the index of a record
\* ("num"), its flags ("flags": capital letters), the comment marker ";;;" ("mark"),
\* the text after the marker ("text"), a key=value pair ("kv", the value as printed,
\* quotes included), or the heading "Flags: ..." ("header")
Tok(t, k, v) == [t |-> t, k |-> k, v |-> v]

\* _parse_kv_pairs_from_line, lines 456-464: the pairs of a line in their order, a
\* later pair replacing an earlier one of the same key; the quotes around a value
\* are taken off
unquote(v) ==
  IF Len(v) >= 2 /\ Head(v) = "\"" /\ v[Len(v)] = "\"" THEN SubSeq(v, 2, Len(v) - 1) ELSE v

dict_update(d, kv) ==
  [k \in DOMAIN d \cup DOMAIN kv |-> IF k \in DOMAIN kv THEN kv[k] ELSE d[k]]

RECURSIVE parse_kv_pairs_from_line(_)
parse_kv_pairs_from_line(line) ==
  IF line = <<>> THEN <<>>
  ELSE LET tok  == line[Len(line)]
           rest == parse_kv_pairs_from_line(SubSeq(line, 1, Len(line) - 1))
       IN IF tok.t = "kv"
          THEN dict_update(rest, [k \in {tok.k} |-> Str(unquote(tok.v))])
          ELSE rest

\* _split_routeros_index_and_flags, lines 514-535: the index, the flags and the rest
\* of a line
split_routeros_index_and_flags(line) ==
  IF line # <<>> /\ line[1].t = "num"
  THEN IF Len(line) >= 2 /\ line[2].t = "flags"
       THEN [number |-> Str(line[1].v), flags |-> line[2].v, rest |-> SubSeq(line, 3, Len(line))]
       ELSE [number |-> Str(line[1].v), flags |-> <<>>, rest |-> Tail(line)]
  ELSE [number |-> None, flags |-> <<>>, rest |-> line]

HasFlag(flags, f) == \E i \in 1..Len(flags) : flags[i] = f

\* a line that every parser skips: empty, or a heading
Skipped(line) == line = <<>> \/ line[1].t = "header"

\* line.split(";;;", 1): the tokens before the first marker, and the text after it
BeforeMark(line) ==
  IF \E i \in 1..Len(line) : line[i].t = "mark"
  THEN SubSeq(line, 1, (CHOOSE i \in 1..Len(line) :
                          /\ line[i].t = "mark"
                          /\ \A j \in 1..(i - 1) : line[j].t # "mark") - 1)
  ELSE line

AfterMark(line) ==
  LET m == Len(BeforeMark(line)) + 1
  IN IF m < Len(line) /\ line[m + 1].t = "text" THEN strip(line[m + 1].v) ELSE <<>>

\* lines 808-812 and 834-837: the disabled field of a record that has none comes
\* from the X flag
FlushRule(st) ==
  IF st.current = <<>> THEN st.rules
  ELSE Append(st.rules,
              IF "disabled" \notin DOMAIN st.current \/ st.current["disabled"].kind = "none"
              THEN dict_update(st.current, [k \in {"disabled"} |-> Bool(HasFlag(st.flags, "X"))])
              ELSE st.current)

\* Faulty variant: the comment read before a record is given to the record before it
FirewallLine_comment_to_previous(st, line) ==
  IF Skipped(line) THEN st
  ELSE LET marked  == BeforeMark(line) # line
           pending == IF marked /\ AfterMark(line) # <<>> THEN Str(AfterMark(line))
                      ELSE st.pending
           l       == BeforeMark(line)
       IN IF l = <<>> THEN [st EXCEPT !.pending = pending]
          ELSE IF l[1].t = "num"
          THEN LET sp == split_routeros_index_and_flags(l)
                   c0 == IF st.current # <<>> /\ pending.kind # "none"
                         THEN dict_update(st.current, [k \in {"comment"} |-> pending])
                         ELSE st.current
                   c1 == [k \in {"number"} |-> sp.number]
               IN [rules |-> FlushRule([st EXCEPT !.current = c0]), pending |-> None,
                   flags |-> sp.flags,
                   current |-> dict_update(c1, parse_kv_pairs_from_line(sp.rest))]
          ELSE IF st.current = <<>> THEN [st EXCEPT !.pending = pending]
          ELSE [st EXCEPT !.pending = pending,
                          !.current = dict_update(@, parse_kv_pairs_from_line(l))]

\* the body of the loop of _parse_firewall_output, lines 789-832
FirewallLine(st, line) ==
  IF Skipped(line) THEN st
  ELSE LET marked  == BeforeMark(line) # line
           pending == IF marked /\ AfterMark(line) # <<>> THEN Str(AfterMark(line))
                      ELSE st.pending
           l       == BeforeMark(line)
       IN IF l = <<>> THEN [st EXCEPT !.pending = pending]
          ELSE IF l[1].t = "num"
          THEN LET sp == split_routeros_index_and_flags(l)
                   c0 == [k \in {"number"} |-> sp.number]
                   c1 == IF pending.kind # "none"
                         THEN dict_update(c0, [k \in {"comment"} |-> pending]) ELSE c0
               IN [rules |-> FlushRule(st), pending |-> None, flags |-> sp.flags,
                   current |-> dict_update(c1, parse_kv_pairs_from_line(sp.rest))]
          ELSE IF st.current = <<>> THEN [st EXCEPT !.pending = pending]
          ELSE [st EXCEPT !.pending = pending,
                          !.current = dict_update(@, parse_kv_pairs_from_line(l))]

RECURSIVE FirewallLines(_, _)
FirewallLines(st, lines) ==
  IF lines = <<>> THEN st ELSE FirewallLines(FirewallLine(st, Head(lines)), Tail(lines))

\* lines 839-843: a disabled field that is a text is replaced when it normalizes
NormalizeDisabled(r) ==
  IF "disabled" \in DOMAIN r /\ normalize_bool(r["disabled"]).kind # "none"
  THEN [r EXCEPT !["disabled"] = normalize_bool(r["disabled"])]
  ELSE r

\* _parse_firewall_output, lines 772-845
parse_firewall_output(lines) ==
  LET rules == FlushRule(FirewallLines([rules |-> <<>>, pending |-> None, flags |-> <<>>,
                                        current |-> <<>>], lines))
  IN [i \in 1..Len(rules) |-> NormalizeDisabled(rules[i])]

\* the body of the loop of _parse_ppp_print_detail_output, lines 544-574: one record
\* a line
PppLine(items, line) ==
  IF Skipped(line) THEN items
  ELSE LET sp == split_routeros_index_and_flags(BeforeMark(line))
           kv == parse_kv_pairs_from_line(sp.rest)
           k1 == IF sp.number.kind # "none"
                 THEN dict_update(kv, [k \in {"number"} |-> sp.number]) ELSE kv
           disabled_from_flags == IF HasFlag(sp.flags, "X") THEN Bool(TRUE) ELSE None
           disabled_from_field == normalize_bool(IF "disabled" \in DOMAIN kv
                                                 THEN kv["disabled"] ELSE None)
           k2 == dict_update(k1, [k \in {"disabled"} |->
                                    IF disabled_from_field.kind # "none"
                                    THEN disabled_from_field ELSE disabled_from_flags])
           k3 == IF "user" \in DOMAIN k2 THEN k2
                 ELSE dict_update(k2, [k \in {"user"} |->
                                         IF "name" \in DOMAIN k2 THEN k2["name"] ELSE None])
       IN IF kv = <<>> THEN items ELSE Append(items, k3)

RECURSIVE parse_ppp_print_detail_output(_)
parse_ppp_print_detail_output(lines) ==
  IF lines = <<>> THEN <<>>
  ELSE PppLine(parse_ppp_print_detail_output(SubSeq(lines, 1, Len(lines) - 1)),
               lines[Len(lines)])

\* lines 1004-1007 and 1022-1025 of _parse_user_manager_output: a record is kept
\* when it has a name
FlushUser(users, current) ==
  IF "name" \in DOMAIN current THEN Append(users, current) ELSE users

\* the body of the loop of _parse_user_manager_output, lines 998-1020
UserManagerLine(st, line) ==
  IF Skipped(line) THEN st
  ELSE IF line[1].t = "num"
  THEN LET sp == split_routeros_index_and_flags(line)
           c0 == [k \in {"number"} |-> sp.number]
           c1 == dict_update(c0, [k \in {"disabled"} |-> Bool(HasFlag(sp.flags, "X"))])
       IN [users |-> FlushUser(st.users, st.current),
           current |-> dict_update(c1, parse_kv_pairs_from_line(sp.rest))]
  ELSE [st EXCEPT !.current = dict_update(@, parse_kv_pairs_from_line(line))]

RECURSIVE UserManagerLines(_, _)
UserManagerLines(st, lines) ==
  IF lines = <<>> THEN st
  ELSE UserManagerLines(UserManagerLine(st, Head(lines)), Tail(lines))

\* _parse_user_manager_output, lines 994-1030: bool(text) is true for a text that is
\* not empty
parse_user_manager_output(lines) ==
  LET st    == UserManagerLines([users |-> <<>>, current |-> <<>>], lines)
      users == FlushUser(st.users, st.current)
  IN [i \in 1..Len(users) |->
        LET d == IF "disabled" \in DOMAIN users[i] THEN users[i]["disabled"] ELSE None
            b == normalize_bool(d)
        IN dict_update(users[i],
                       [k \in {"disabled"} |->
                          IF b.kind # "none" THEN b ELSE Bool(d.kind = "str" /\ d.s # <<>>)])]

\* the texts the device prints for a boolean, in three letter cases and with blanks
\* around them, and texts that are none of them
BoolWords == {<<"y", "e", "s">>, <<"n", "o">>, <<"t", "r", "u", "e">>,
              <<"f", "a", "l", "s", "e">>, <<"e", "n", "a", "b", "l", "e", "d">>,
              <<"d", "i", "s", "a", "b", "l", "e", "d">>, <<"1">>, <<"0">>}

Title(s) == upper(SubSeq(s, 1, 1)) \o Tail(s)

Spellings(s) ==
  UNION {{t, <<" ">> \o t, t \o <<" ">>, <<" ">> \o t \o <<" ", " ">>} :
           t \in {s, upper(s), Title(s)}}

OtherTexts == {<<>>, <<"m", "a", "y", "b", "e">>, <<"o", "n">>}

NormalizerValues ==
  {None, Bool(TRUE), Bool(FALSE)}
    \cup {Str(t) : t \in OtherTexts \cup UNION {Spellings(w) : w \in BoolWords}}

\* a key=value pair as the device prints it, and the value it stands for
Pair(k, printed, value) == [k |-> k, printed |-> printed, value |-> value]

PChain == Pair("chain", <<"f", "w", "d">>, <<"f", "w", "d">>)

PList == Pair("src-address-list", <<"\"", "v", "p", "n", " ", "1", "\"">>,
              <<"v", "p", "n", " ", "1">>)

PId == Pair(".id", <<"*", "1">>, <<"*", "1">>)

PLog == Pair("log-prefix", <<"\"", "a", "\\", "\"", "\"">>, <<"a", "\\", "\"">>)

PName == Pair("name", <<"u", "1">>, <<"u", "1">>)

KvToks(pairs) == [i \in 1..Len(pairs) |-> Tok("kv", pairs[i].k, pairs[i].printed)]

HeaderLine == <<Tok("header", "", <<>>)>>

CommentToks(text) == <<Tok("mark", "", <<>>), Tok("text", "", <<" ">> \o text)>>

NoText == <<>>

OwnText == <<"b", "a", "s", "e">>

InlineText == <<"v", "p", "n", " ", "u", "1">>

\* The record blocks of `/ip firewall filter print detail`: a comment on a line of its
\* own before the record (own), the index line with its flag, its pairs (head) and its
\* inline comment (inline), continuation lines of pairs (cont), and what follows the
\* block: nothing, a second record, or a second record with a comment line before it
RuleBlocks ==
  [own : {NoText, OwnText}, inline : {NoText, InlineText}, flag : BOOLEAN,
   head : {<<>>, <<PChain>>}, cont : {<<>>, <<<<PList>>>>, <<<<PList, PId>>, <<PLog>>>>},
   second : {"none", "record", "commented"}]

RuleBlockLines(b) ==
  <<HeaderLine>>
    \o (IF b.own # NoText THEN <<CommentToks(b.own)>> ELSE <<>>)
    \o <<(<<Tok("num", "", <<"0">>)>>
          \o (IF b.flag THEN <<Tok("flags", "", <<"X">>)>> ELSE <<>>)
          \o KvToks(b.head)
          \o (IF b.inline # NoText THEN CommentToks(b.inline) ELSE <<>>))>>
    \o [i \in 1..Len(b.cont) |-> KvToks(b.cont[i])]
    \o (IF b.second = "commented" THEN <<CommentToks(OwnText)>> ELSE <<>>)
    \o (IF b.second # "none" THEN <<(<<Tok("num", "", <<"1">>)>> \o KvToks(<<PChain>>))>>
        ELSE <<>>)

\* One record of a `print detail` listing: flagged X or not, with a disabled= pair
\* (field) or without
DisabledFields == {NoText, <<"y", "e", "s">>, <<"n", "o">>, <<"Y", "E", "S">>,
                   <<"m", "a", "y", "b", "e">>}

ListedRecords == [flag : BOOLEAN, field : DisabledFields]

ListedRecordLines(d) ==
  <<HeaderLine,
    <<Tok("num", "", <<"0">>)>>
      \o (IF d.flag THEN <<Tok("flags", "", <<"X">>)>> ELSE <<>>)
      \o KvToks(<<PName>>)
      \o (IF d.field # NoText THEN <<Tok("kv", "disabled", d.field)>> ELSE <<>>)>>

Parsers == {"parse_firewall_output", "parse_ppp_print_detail_output",
            "parse_user_manager_output"}

ParserInputs ==
  [op : {"normalize_bool"}, arg : NormalizerValues]
    \cup [op : {"parse_rule_block"}, arg : RuleBlocks]
    \cup [op : Parsers, arg : ListedRecords]

Parse_(op, lines) ==
  IF op = "parse_firewall_output" THEN parse_firewall_output(lines)
  ELSE IF op = "parse_ppp_print_detail_output" THEN parse_ppp_print_detail_output(lines)
  ELSE parse_user_manager_output(lines)

ParserStep(ops, result) ==
  /\ parseInput.op \in ops
  /\ ~parseOutput.done
  /\ parseOutput' = [done |-> TRUE, result |-> result]
  /\ UNCHANGED <<grantVars, settings, now, retentionVars, schedulerVars, bindingVars,
                 adapterCall, adapterReply, parseInput>>

\* _normalize_bool is applied to a value
NormalizeBool == ParserStep({"normalize_bool"}, normalize_bool(parseInput.arg))

\* _parse_firewall_output is applied to a record block
ParseRuleBlock ==
  ParserStep({"parse_rule_block"}, parse_firewall_output(RuleBlockLines(parseInput.arg)))

\* a parser is applied to a listing of one record
ParseListing ==
  ParserStep(Parsers, Parse_(parseInput.op, ListedRecordLines(parseInput.arg)))

InitParser ==
  /\ GrantsIdle
  /\ RetentionIdle
  /\ SchedulerIdle
  /\ BindingsIdle
  /\ settings = DefaultSettings
  /\ now = 0
  /\ AdapterOpsIdle
  /\ parseInput \in ParserInputs
  /\ parseOutput = [done |-> FALSE, result |-> <<>>]

NextParser ==
  \/ NormalizeBool
  \/ ParseRuleBlock
  \/ ParseListing

\* one function of the shell output parsers is applied to one input
SpecParser == InitParser /\ [][NextParser]_vars

----------------------------------------------------------------------------
(* A confirmation reply racing a job run *)

\* The bot and the backend are two processes on one database.  Each statement below is
\* one database statement or one device call of vpn_session_service as the handler
\* of the process executes it; `row` is the VPNSession object of the process's own
\* database session: it is loaded by a query, kept while no commit intervenes and
\* read again after a commit (db.refresh, or expire_on_commit at the next access).

RaceGrant == 1

RaceInstants == {250, 350, 4000}

\* a grant of u1 on a1, connected at 0 and waiting for its confirmation
RaceRow ==
  [user_id |-> "u1", mikrotik_username |-> "a1", status |-> "connected",
   created_at |-> 0, connected_at |-> 0, confirmed_at |-> NoTime,
   expires_at |-> SecondsPerHour, reminder_sent_at |-> NoTime, last_seen_at |-> 0,
   firewall_rule_id |-> NoRule]

\* the statement that follows the commit of a terminal status (lines 231-245, 264-272)
AfterTerminalStatus(p, row) ==
  IF row.firewall_rule_id # NoRule THEN "disable_rule"
  ELSE IF p = "job" /\ race.job = "expiry" THEN "disable_identity"
  ELSE "terminate"

\* the statement process p has reached, applied to the store and the device as they
\* are now: what it leaves in the row of the grant, on the device and in the memory
\* of the process, and the statement the process goes on to
RaceEffect(p) ==
  LET pc      == race.pc[p]
      mem     == race.row[p]
      db      == sessions[RaceGrant]
      us      == get_user_settings(db.user_id)
      comment == IF us.present THEN us.firewall_rule_comment ELSE NoComment
      rule    == RuleByComment(comment)
      same    == [db |-> db, idDis |-> idDisabled, ruleDis |-> ruleDisabled,
                  row |-> mem, pc |-> "done"]
  IN CASE pc = "lookup" ->
            \* bot.py 300-312: get_vpn_session_by_id, the owner check, the decision
            [same EXCEPT !.row = db,
                         !.pc = IF db.user_id # "u1" THEN "done"
                                ELSE IF race.decision = "no" THEN "disconnected"
                                ELSE "confirmed"]
       [] pc = "confirmed" ->
            \* update_vpn_session_status(CONFIRMED): assignment, commit, refresh
            LET d == [db EXCEPT !.status = "confirmed",
                                !.confirmed_at = IF mem.confirmed_at = NoTime THEN now ELSE @]
            IN [same EXCEPT !.db = d, !.row = d,
                            !.pc = IF comment # NoComment /\ rule # NoRule
                                   THEN "enable_rule" ELSE "active"]
       [] pc = "enable_rule" ->
            [same EXCEPT !.ruleDis[rule] = FALSE, !.pc = "store_rule"]
       [] pc = "store_rule" ->
            [same EXCEPT !.db.firewall_rule_id = rule, !.pc = "active"]
       [] pc = "active" ->
            LET d == [db EXCEPT !.status = "active"]
            IN [same EXCEPT !.db = d, !.row = d, !.pc = "expires_at"]
       [] pc = "expires_at" ->
            [same EXCEPT !.db.expires_at = now + DurationHours(db.user_id) * SecondsPerHour]
       [] pc = "load" ->
            \* get_sessions_by_status, then what the loop decides from the loaded row
            [same EXCEPT !.row = db,
                         !.pc = IF db.status \notin NonTerminal THEN "done"
                                ELSE IF race.job = "expiry"
                                THEN IF db.expires_at # NoTime /\ db.expires_at < now
                                     THEN "expired" ELSE "done"
                                ELSE IF race.active THEN "last_seen"
                                ELSE IF /\ db.status \in {"connected", "confirmed", "active",
                                                          "reminder_sent"}
                                        /\ ~WithinGrace(db)
                                THEN "disconnected" ELSE "done"]
       [] pc = "last_seen" ->
            \* scheduler_service 229-233
            [same EXCEPT !.db.last_seen_at = now, !.pc = "status"]
       [] pc = "status" ->
            \* line 235/273: session.status is read again after the commit
            [same EXCEPT !.row = db,
                         !.pc = IF /\ db.status = "connected"
                                   /\ RequireConfirmation(db.user_id)
                                   /\ ConfirmationTimedOut(db)
                                THEN "disconnected" ELSE "done"]
       [] pc = "disconnected" ->
            LET d == [db EXCEPT !.status = "disconnected"]
            IN [same EXCEPT !.db = d, !.row = d, !.pc = AfterTerminalStatus(p, d)]
       [] pc = "expired" ->
            LET d == [db EXCEPT !.status = "expired"]
            IN [same EXCEPT !.db = d, !.row = d, !.pc = AfterTerminalStatus(p, d)]
       [] pc = "disable_rule" ->
            [same EXCEPT !.ruleDis[mem.firewall_rule_id] = TRUE,
                         !.pc = IF p = "job" /\ race.job = "expiry"
                                THEN "disable_identity" ELSE "terminate"]
       [] pc = "terminate" ->
            [same EXCEPT !.pc = "disable_identity"]
       [] pc = "disable_identity" ->
            [same EXCEPT !.idDis[mem.mikrotik_username] = TRUE]

RaceStep(p) ==
  /\ race.pc[p] # "done"
  /\ LET e == RaceEffect(p)
     IN /\ sessions' = [sessions EXCEPT ![RaceGrant] = e.db]
        /\ idDisabled' = e.idDis
        /\ ruleDisabled' = e.ruleDis
        /\ race' = [race EXCEPT !.pc[p] = e.pc, !.row[p] = e.row]
  /\ UNCHANGED <<nextId, userStatus, userSettings, prompted, ticks, steps, last>>
  /\ UNCHANGED <<settings, now, retentionVars, bindingVars, adapterVars,
                 scheduler, inFlight, deviceConfig, lastRun>>

\* the next statement of _handle_session_confirmation in the bot process
ReplyStep == RaceStep("bot")

\* the next statement of the job run in the backend process
JobStep == RaceStep("job")

InitRace ==
  /\ RetentionIdle
  /\ BindingsIdle
  /\ AdapterIdle
  /\ scheduler = [running |-> FALSE, check_interval_seconds |-> 0]
  /\ inFlight = [j \in Jobs |-> 0]
  /\ deviceConfig = TRUE
  /\ lastRun = NoRun
  /\ settings = DefaultSettings
  /\ now \in RaceInstants
  /\ sessions = <<RaceRow>>
  /\ nextId = 2
  /\ idDisabled = [i \in Identities |-> i # "a1"]
  /\ ruleDisabled = [r \in Rules |-> TRUE]
  /\ userStatus = [u \in Users |-> "approved"]
  /\ \E c \in {"c1", NoComment} :
       userSettings = [u \in Users |->
          IF u = "u1" THEN [DefaultUserSetting EXCEPT !.require_confirmation = TRUE,
                                                      !.session_duration_hours = 1,
                                                      !.firewall_rule_comment = c]
          ELSE DefaultUserSetting]
  /\ prompted = {RaceGrant}
  /\ ticks = 0
  /\ steps = 0
  /\ last = [op |-> "init", user |-> "", id |-> 0, arg |-> "", flagged |-> {}, active |-> {},
             fail |-> {}, result |-> "", tr |-> <<>>, calls |-> <<>>, notes |-> <<>>]
  /\ \E decision \in {"yes", "no"}, job \in {"check", "expiry"}, active \in BOOLEAN :
       race = [decision |-> decision, job |-> job, active |-> active,
               pc |-> [bot |-> "lookup", job |-> "load"],
               row |-> [bot |-> RaceRow, job |-> RaceRow],
               start |-> [s |-> sessions, idDis |-> idDisabled, ruleDis |-> ruleDisabled]]

NextRace ==
  \/ ReplyStep
  \/ JobStep

\* a reply and a job run, statement by statement, in any interleaving
SpecRace == InitRace /\ [][NextRace]_vars

----------------------------------------------------------------------------
(* Requests and access removal of a grantee with bound identities *)

\* the active identities bound to a grantee (handlers/vpn.py 126-132, 351-357)
BoundNames(u) == {a.mikrotik_username : a \in {b \in accounts : b.user_id = u /\ b.is_active}}

\* what the callback query of a request carries: nothing (the command or the menu
\* button), the index of an account of the keyboard, a page of the keyboard, or a
\* name in the old format action:request_vpn:<username>
CallbackData == {"none", "idx:0", "idx:1", "page:0"} \cup Identities

Index(cd) == IF cd = "idx:0" THEN 0 ELSE 1

\* lines 134-177: chosen_username, or the answer that ends the handler without one
chosen_username(usernames, cd) ==
  IF cd = "page:0" THEN "page"
  ELSE IF cd \in {"idx:0", "idx:1"} /\ Index(cd) < Len(usernames)
  THEN usernames[Index(cd) + 1]
  ELSE IF cd \in Identities THEN cd
  ELSE IF Len(usernames) = 1 THEN usernames[1]
  ELSE IF Len(usernames) > 1 THEN "choose_account"
  ELSE "no_account"

\* request_vpn_handler; usernames are the bound identities in the order of the query
request_vpn_handler(w, u, usernames, cd) ==
  IF ~check_user_registered(u) THEN [w |-> w, result |-> "not_registered", name |-> ""]
  ELSE IF get_active_vpn_session_for_user(w.s, u) # {}
  THEN [w |-> w, result |-> "has_active_sessions", name |-> ""]
  ELSE LET chosen == chosen_username(usernames, cd)
       IN IF chosen \notin Identities THEN [w |-> w, result |-> chosen, name |-> ""]
          ELSE LET r == create_vpn_session(w, u, chosen, {}, TRUE)
               IN [w |-> r.w, result |-> r.result, name |-> chosen]

\* a grantee asks for access in the chat
RequestVpn(u, usernames, cd) ==
  /\ nextId <= MaxSessions
  /\ steps < MaxSteps
  /\ \E r \in {request_vpn_handler(World, u, usernames, cd)} :
        /\ Commit(r.w)
        /\ nextId' = IF r.result = "created" THEN nextId + 1 ELSE nextId
        /\ Record("request_vpn", u, IF r.result = "created" THEN nextId ELSE 0, r.name,
                  {}, {}, {}, r.result, r.w)
  /\ UNCHANGED <<userStatus, userSettings, settings, now, ticks>>
  /\ UNCHANGED componentVars

\* lines 360-368: every active session of the grantee is disconnected
RECURSIVE DisconnectEach(_, _, _)
DisconnectEach(w, ids, k) ==
  IF k > Len(ids) THEN w
  ELSE DisconnectEach(disconnect_vpn_session(w, ids[k], {}), ids, k + 1)

\* lines 370-378: every bound identity is disabled on the device
RECURSIVE DisableEach(_, _, _)
DisableEach(w, usernames, k) ==
  IF k > Len(usernames) THEN w
  ELSE DisableEach(disable_user_manager_user(w, usernames[k], {}), usernames, k + 1)

\* disable_vpn_access_handler
disable_vpn_access_handler(w, u, mode, ids, usernames) ==
  IF ~check_user_registered(u) THEN [w |-> w, result |-> "not_registered"]
  ELSE IF mode \notin {"disconnect_all", "revoke_only"} THEN [w |-> w, result |-> "menu"]
  ELSE LET w1 == IF mode = "disconnect_all" THEN DisconnectEach(w, ids, 1) ELSE w
       IN [w |-> DisableEach(w1, usernames, 1), result |-> "done"]

\* a grantee removes their own access in the chat
DisableVpnAccess(u, mode, ids, usernames) ==
  /\ steps < MaxSteps
  /\ \E r \in {disable_vpn_access_handler(World, u, mode, ids, usernames)} :
        /\ Commit(r.w)
        /\ Record("disable_vpn_access", u, 0, mode, {}, {}, {}, r.result, r.w)
  /\ UNCHANGED <<nextId, userStatus, userSettings, settings, now, ticks>>
  /\ UNCHANGED componentVars

\* the bindings the administrator has set: one identity each, or both bound to u1
Bindings ==
  { {[user_id |-> "u1", mikrotik_username |-> "a1", is_active |-> TRUE],
     [user_id |-> "u2", mikrotik_username |-> "a2", is_active |-> TRUE]},
    {[user_id |-> "u1", mikrotik_username |-> "a1", is_active |-> TRUE],
     [user_id |-> "u1", mikrotik_username |-> "a2", is_active |-> TRUE]} }

\* the configurations in which u1 must confirm, or u2 may request as well
AccessConfigs == {c \in Configs : c.u1req \/ c.u2status = "active"}

InitAccess ==
  /\ RetentionIdle
  /\ SchedulerIdle
  /\ AdapterIdle
  /\ accounts \in Bindings
  /\ lastBind = [user |-> "", usernames |-> <<>>, result |-> ""]
  /\ sessions = << >>
  /\ nextId = 1
  /\ idDisabled = [i \in Identities |-> TRUE]
  /\ ruleDisabled = [r \in Rules |-> TRUE]
  /\ \E c \in AccessConfigs :
       /\ userStatus = [u \in Users |-> IF u = "u1" THEN "approved" ELSE c.u2status]
       /\ settings = [vpn_require_confirmation |-> c.global,
                      vpn_confirmation_timeout_seconds |-> DefaultConfirmationTimeout,
                      vpn_connection_check_interval_seconds |-> c.interval]
       /\ userSettings = [u \in Users |->
            IF u = "u1" /\ c.u1default THEN DefaultUserSetting
            ELSE IF u = "u1" THEN [DefaultUserSetting EXCEPT !.require_confirmation = c.u1req,
                                                        !.session_duration_hours = 1,
                                                        !.firewall_rule_comment = "c1"]
            ELSE IF c.u2status = "active" THEN NoSettings
            ELSE DefaultUserSetting]
  /\ prompted = {}
  /\ now = 0
  /\ ticks = 0
  /\ steps = 0
  /\ last = [op |-> "init", user |-> "", id |-> 0, arg |-> "", flagged |-> {}, active |-> {},
             fail |-> {}, result |-> "", tr |-> <<>>, calls |-> <<>>, notes |-> <<>>]

\* the handlers of the life cycle while the device and the store work
NextAccess ==
  \/ Tick
  \/ \E u \in Users, cd \in CallbackData :
       \E usernames \in Perms(BoundNames(u)) : RequestVpn(u, usernames, cd)
  \/ \E u \in Users, name \in Identities : RequestGrant(u, name, {}, TRUE)
  \/ /\ steps < MaxSteps
     /\ \E loaded \in LoadOrders, report \in Reports :
          \E order \in Perms(Untracked(ActiveUsernames(get_user_manager_sessions(report, {})))) :
            ConnectionCheck(loaded, report, order, {}, 0)
  \/ /\ steps < MaxSteps
     /\ \E loaded \in LoadOrders : ExpiryCheck(loaded, {}, 0)
  \/ \E u \in Users, id \in prompted, decision \in {"yes", "no"} : ConfirmReply(u, id, decision, {})
  \/ \E caller \in Users \cup {"admin"}, id \in DOMAIN sessions : Disconnect(caller, id, {})
  \/ \E u \in Users, mode \in {"menu", "disconnect_all", "revoke_only"} :
       \E ids \in Perms(get_active_vpn_session_for_user(sessions, u)),
          usernames \in Perms(BoundNames(u)) :
         DisableVpnAccess(u, mode, ids, usernames)

SpecAccess == InitAccess /\ [][NextAccess]_vars

----------------------------------------------------------------------------
(* The jobs over unbounded time *)

\* the instant after which no stored grant can be resurrected or is still to expire
Horizon ==
  LET deadline(s) == Max(s.expires_at, s.created_at + ResurrectWindowSeconds)
  IN IF DOMAIN sessions = {} THEN 0
     ELSE CHOOSE d \in {deadline(sessions[i]) : i \in DOMAIN sessions} :
            \A i \in DOMAIN sessions : deadline(sessions[i]) <= d

\* time passes: to the next instant at which handlers run, then past the horizon
Elapse ==
  /\ ticks < Len(Instants) \/ now <= Horizon
  /\ now' = IF ticks < Len(Instants) THEN Instants[ticks + 1] ELSE Horizon + 1
  /\ ticks' = IF ticks < Len(Instants) THEN ticks + 1 ELSE ticks
  /\ UNCHANGED <<sessions, nextId, idDisabled, ruleDisabled, userStatus, userSettings,
                 settings, prompted, steps, last>>
  /\ UNCHANGED componentVars

\* what a job run that the scheduler triggers for ever leaves in `last`
JobRun(op, result) ==
  [op |-> op, user |-> "", id |-> 0, arg |-> "", flagged |-> {}, active |-> {},
   fail |-> {}, result |-> result, tr |-> <<>>, calls |-> <<>>, notes |-> <<>>]

\* a run of the connection-check job (IntervalTrigger, scheduler_service 76-81)
PeriodicConnectionCheck(loaded, report, order, fail) ==
  /\ \E r \in {check_vpn_connections(World, loaded, report, order, fail, 0)} :
        /\ Commit(r.w)
        /\ last' = JobRun("check", r.result)
  /\ UNCHANGED <<nextId, userStatus, userSettings, settings, now, ticks, steps>>
  /\ UNCHANGED componentVars

\* a run of the expiry-check job (IntervalTrigger(minutes=15), scheduler_service 84-89)
PeriodicExpiryCheck(loaded, fail) ==
  /\ \E r \in {check_expired_sessions(World, loaded, fail, 0)} :
        /\ Commit(r.w)
        /\ last' = JobRun("expiry", r.result)
  /\ UNCHANGED <<nextId, userStatus, userSettings, settings, now, ticks, steps>>
  /\ UNCHANGED componentVars

ExpiryRuns == \E loaded \in LoadOrders, fail \in FailSets : PeriodicExpiryCheck(loaded, fail)

\* the device's reports about a1, the identity the grants of this study are on
LiveReports == {r \in Reports : r["a2"] = "none"}

NextLive ==
  \/ Elapse
  \/ \E fail \in FailSets : nextId = 1 /\ RequestGrant("u1", "a1", fail, TRUE)
  \/ \E loaded \in LoadOrders, report \in LiveReports, fail \in FailSets :
       \E order \in Perms(Untracked(ActiveUsernames(get_user_manager_sessions(report, fail)))) :
         PeriodicConnectionCheck(loaded, report, order, fail)
  \/ ExpiryRuns
  \/ \E id \in prompted, decision \in {"yes", "no"}, fail \in FailSets :
       ConfirmReply("u1", id, decision, fail)
  \/ \E id \in DOMAIN sessions, fail \in FailSets : Disconnect("u1", id, fail)

\* time advances and the expiry-check job keeps running; requests, replies and
\* manual disconnects are finitely many, persistence works, no grant is extended
SpecLive == Init /\ [][NextLive]_vars /\ WF_vars(Elapse) /\ WF_vars(ExpiryRuns)

----------------------------------------------------------------------------
(* Properties *)

\* the edges of the status table; resurrection belongs to the connection check
\* and REMINDER_SENT returns to ACTIVE by extension only
TableEdge(from, to, op) ==
  \/ from = "requested" /\ to = "connected"
  \/ from = "connected" /\ to = "confirmed"
  \/ from = "confirmed" /\ to = "active"
  \/ from \in {"confirmed", "active"} /\ to = "reminder_sent"
  \/ from = "reminder_sent" /\ to = "active" /\ op = "extend"
  \/ from \in NonTerminal /\ to \in Terminal
  \/ from = "disconnected" /\ to = "connected" /\ op = "check"

\* C1: every status change a handler writes follows an edge of the status table;
\* in particular a 'yes' reply advances only a CONNECTED grant and an EXPIRED grant
\* never changes status again
C1_StatusChangesFollowTable ==
  \A k \in 1..Len(last.tr) : TableEdge(last.tr[k].from, last.tr[k].to, last.op)

\* C2: each grantee owns at most one grant whose status is non-terminal
C2_OneNonTerminalGrantPerGrantee ==
  \A u \in Users : Cardinality(get_active_vpn_session_for_user(sessions, u)) <= 1

C4_RequestRefusedWithoutDeviceCall ==
  [][last'.op = "request"
     /\ (\/ userStatus[last'.user] \notin {"approved", "active"}
         \/ \E i \in DOMAIN sessions :
              sessions[i].user_id = last'.user /\ sessions[i].status \in NonTerminal) =>
       /\ last'.result \in {"not_approved", "already_active"}
       /\ sessions' = sessions
       /\ last'.calls = <<>>
       /\ idDisabled' = idDisabled]_vars

\* a request has just been refused because the grantee holds a non-terminal grant,
\* for an identity that is still disabled on the device
C4_Witness ==
  /\ last.op = "request"
  /\ last.result = "already_active"
  /\ idDisabled[last.arg]
  /\ \E i \in DOMAIN sessions :
       sessions[i].user_id = last.user /\ sessions[i].status \in NonTerminal

\* the rule bound to a grantee through the comment in its settings, or NoRule
BoundRule(u) ==
  IF userSettings[u].present THEN RuleByComment(userSettings[u].firewall_rule_comment)
  ELSE NoRule

\* C5: for a grant whose grantee requires confirmation, a connection-check run that
\* runs to its end and finds it REQUESTED with its identity active moves it to
\* CONNECTED and emits the confirmation prompt; no connection-check run moves such a grant to CONFIRMED or
\* ACTIVE, and none enables the grantee's bound rule
C5_NoAdvanceWithoutConfirmation ==
  [][last'.op = "check" =>
       \A id \in DOMAIN sessions :
         RequireConfirmation(sessions[id].user_id) =>
           /\ \A k \in 1..Len(last'.tr) :
                last'.tr[k].id = id => last'.tr[k].to \notin {"confirmed", "active"}
           /\ sessions'[id].status \in {"confirmed", "active"} =>
                sessions'[id].status = sessions[id].status
           /\ \A k \in 1..Len(last'.calls) :
                last'.calls[k].op = "enable_rule" =>
                  last'.calls[k].target # BoundRule(sessions[id].user_id)
           /\ sessions[id].status = "requested"
              /\ sessions[id].mikrotik_username \in last'.active
              /\ last'.result = "done" =>
                /\ sessions'[id].status = "connected"
                /\ sessions'[id].connected_at = now
                /\ \E k \in 1..Len(last'.notes) :
                     last'.notes[k] = [kind |-> "confirmation_required", id |-> id]]_vars

\* a connection check has just moved a grant whose grantee requires confirmation
\* from REQUESTED to CONNECTED and prompted for it
C5_Witness ==
  /\ last.op = "check"
  /\ \E id \in DOMAIN sessions :
       /\ RequireConfirmation(sessions[id].user_id)
       /\ sessions[id].status = "connected"
       /\ \E k \in 1..Len(last.tr) :
            last.tr[k] = [id |-> id, from |-> "requested", to |-> "connected"]
       /\ \E k \in 1..Len(last.notes) :
            last.notes[k] = [kind |-> "confirmation_required", id |-> id]

\* the confirmation requirement as the specification states it: the grantee's own
\* setting when one was set, and the global default for a grantee that has no row or
\* still has the row it was created with
StatedRequirement(u) ==
  IF userSettings[u].present /\ userSettings[u] # DefaultUserSetting
  THEN userSettings[u].require_confirmation
  ELSE settings.vpn_require_confirmation

\* C6: the effective confirmation requirement is the grantee's own setting when it has
\* one and the global default otherwise; a connection check does not auto-confirm a
\* grant of a grantee for whom that requirement holds, in particular not one of a
\* grantee created with default settings while the global default requires confirmation
C6_GlobalDefaultAppliesWithoutOverride ==
  last.op = "check" =>
    \A k \in 1..Len(last.tr) :
      last.tr[k].to = "confirmed" => ~StatedRequirement(sessions[last.tr[k].id].user_id)

\* C7: when confirmation is not required, a connection-check run that finds a REQUESTED
\* grant's identity active leaves the grant ACTIVE at its end, with the connected and
\* confirmed timestamps set, expires-at equal to the time of the run plus the grantee's
\* configured duration, and the grantee's bound rule, if one is configured, enabled
C7_AutoConfirmInSameRun ==
  [][last'.op = "check" /\ last'.result = "done" =>
       \A id \in DOMAIN sessions :
         (/\ sessions[id].status = "requested"
          /\ sessions[id].mikrotik_username \in last'.active
          /\ ~RequireConfirmation(sessions[id].user_id)) =>
           /\ sessions'[id].status = "active"
           /\ sessions'[id].connected_at = now
           /\ sessions'[id].confirmed_at = now
           /\ sessions'[id].expires_at =
                now + DurationHours(sessions[id].user_id) * SecondsPerHour
           /\ BoundRule(sessions[id].user_id) # NoRule =>
                ~ruleDisabled'[BoundRule(sessions[id].user_id)]]_vars

\* a grant that waits for a confirmation longer than the configured timeout
WaitsPastTimeout(s) ==
  /\ s.status = "connected"
  /\ RequireConfirmation(s.user_id)
  /\ s.connected_at # NoTime
  /\ now - s.connected_at > settings.vpn_confirmation_timeout_seconds

LastSeen(s) == IF s.last_seen_at # NoTime THEN s.last_seen_at ELSE s.connected_at

\* C9: in a connection-check run that obtained the device's report and ran to its end,
\* a CONNECTED, CONFIRMED, ACTIVE or REMINDER_SENT grant whose identity no device
\* record flags active keeps its status if less than max(30 s, 2 x poll interval) have
\* passed since it was last seen, and becomes DISCONNECTED if more have passed
C9_GraceWindowAsReported ==
  [][last'.op = "check" /\ last'.result = "done" =>
       \A id \in DOMAIN sessions :
         (/\ sessions[id].status \in {"connected", "confirmed", "active", "reminder_sent"}
          /\ sessions[id].mikrotik_username \notin last'.flagged
          /\ LastSeen(sessions[id]) # NoTime) =>
           LET lapse == now - LastSeen(sessions[id])
               grace == Max(30, 2 * settings.vpn_connection_check_interval_seconds)
           IN /\ lapse < grace => sessions'[id].status = sessions[id].status
              /\ lapse > grace => sessions'[id].status = "disconnected"]_vars

\* C9 for the identities the run itself does not treat as active (last.active, which
\* holds every returned record's identity when none is flagged): such a grant is
\* left untouched within the grace window and DISCONNECTED beyond it
C9_GraceWindow ==
  [][last'.op = "check" /\ last'.result = "done" =>
       \A id \in DOMAIN sessions :
         (/\ sessions[id].status \in {"connected", "confirmed", "active", "reminder_sent"}
          /\ sessions[id].mikrotik_username \notin last'.active
          /\ LastSeen(sessions[id]) # NoTime) =>
           LET lapse == now - LastSeen(sessions[id])
               grace == Max(30, 2 * settings.vpn_connection_check_interval_seconds)
           IN /\ lapse < grace => sessions'[id] = sessions[id]
              /\ lapse > grace => sessions'[id].status = "disconnected"]_vars

\* a connection check has just left an ACTIVE grant untouched whose identity was not
\* reported active and was last seen less than the grace window ago
C9_Witness ==
  /\ last.op = "check"
  /\ last.result = "done"
  /\ \E id \in DOMAIN sessions :
       /\ sessions[id].status = "active"
       /\ sessions[id].mikrotik_username \notin last.active
       /\ sessions[id].last_seen_at # NoTime
       /\ now - sessions[id].last_seen_at > 0
       /\ now - sessions[id].last_seen_at < DisconnectGraceSeconds

\* C10: in a connection-check run that takes place while the device has an identity
\* active, every such identity that has no non-terminal grant and whose most recent grant is DISCONNECTED
\* and was created less than 24 h ago has that grant promoted to CONNECTED, also when
\* the store holds no non-terminal grant at all; a most recent grant that is EXPIRED
\* or was created more than 24 h ago is left untouched; no grant is created
C10_AntiFlapResurrection ==
  [][last'.op = "check" /\ last'.result # "query_failed" =>
       /\ DOMAIN sessions' = DOMAIN sessions
       /\ \A name \in last'.active :
            LET g == Latest(sessions, name)
            IN (/\ g # 0
                /\ \A i \in DOMAIN sessions :
                     sessions[i].mikrotik_username = name =>
                       sessions[i].status \notin NonTerminal) =>
                 /\ (/\ sessions[g].status = "disconnected"
                     /\ now - sessions[g].created_at < ResurrectWindowSeconds) =>
                      \E k \in 1..Len(last'.tr) :
                        last'.tr[k] = [id |-> g, from |-> "disconnected", to |-> "connected"]
                 /\ (\/ sessions[g].status = "expired"
                     \/ now - sessions[g].created_at > ResurrectWindowSeconds) =>
                      sessions'[g] = sessions[g]]_vars

\* C11: a connection-check run that directly follows another one, with the same device
\* report and at the same clock, both having obtained the report, leaves the stored
\* grants as the first run left them, issues no device call other than the session
\* listing and emits no notification
C11_ConnectionCheckIdempotent ==
  [][(/\ last.op = "check" /\ last.result = "done"
      /\ last'.op = "check" /\ last'.result = "done"
      /\ last'.flagged = last.flagged
      /\ last'.active = last.active) =>
       /\ sessions' = sessions
       /\ \A k \in 1..Len(last'.calls) : last'.calls[k].op = "list_sessions"
       /\ last'.notes = <<>>]_vars

\* a non-terminal grant whose expires-at lies in the past
Elapsed(s) ==
  s.status \in NonTerminal /\ s.expires_at # NoTime /\ s.expires_at < now

\* C12: a run of the expiry check leaves every non-terminal grant whose expires-at lies
\* in the past EXPIRED, with its identity disabled and the rule recorded on it, if any,
\* disabled, and issues no call that terminates the identity's connections
C12_ExpiryDisablesRuleAndIdentity ==
  [][last'.op = "expiry" =>
       \A id \in DOMAIN sessions :
         Elapsed(sessions[id]) =>
           /\ sessions'[id].status = "expired"
           /\ idDisabled'[sessions[id].mikrotik_username]
           /\ sessions[id].firewall_rule_id # NoRule =>
                ruleDisabled'[sessions[id].firewall_rule_id]
           /\ \A k \in 1..Len(last'.calls) :
                ~(/\ last'.calls[k].op = "terminate"
                  /\ last'.calls[k].target = sessions[id].mikrotik_username)]_vars

\* C13: expiry always wins: a connection-check run that processes a non-terminal grant
\* whose expires-at has passed before the expiry check does neither moves it to ACTIVE
\* nor gives it another expires-at
C13_ExpiryAlwaysWins ==
  [][last'.op = "check" =>
       \A id \in DOMAIN sessions :
         Elapsed(sessions[id]) =>
           /\ sessions'[id].expires_at = sessions[id].expires_at
           /\ sessions'[id].status = "active" => sessions[id].status = "active"]_vars

\* C14: extendGrant applied to a grant that is neither ACTIVE nor REMINDER_SENT fails
\* with the domain error and leaves the grant, and the rest of the store and the
\* device, unchanged
C14_ExtendRefusedOutsideActive ==
  [][(/\ last'.op = "extend"
      /\ last'.id \in DOMAIN sessions
      /\ sessions[last'.id].status \notin {"active", "reminder_sent"}) =>
       /\ last'.result = "invalid_state"
       /\ sessions' = sessions
       /\ last'.tr = <<>>
       /\ last'.calls = <<>>]_vars

\* an extension of an EXPIRED grant has just been refused
C14_Witness ==
  /\ last.op = "extend"
  /\ last.result = "invalid_state"
  /\ last.id \in DOMAIN sessions
  /\ sessions[last.id].status = "expired"

\* C15: a successful extendGrant without an hours argument sets expires-at to the
\* current time plus the grantee's configured session duration, clears the reminder
\* marker and leaves the grant ACTIVE
C15_ExtendByConfiguredDuration ==
  [][(/\ last'.op = "extend"
      /\ last'.arg = "default"
      /\ last'.result = "extended") =>
       /\ sessions'[last'.id].expires_at =
            now + DurationHours(sessions[last'.id].user_id) * SecondsPerHour
       /\ sessions'[last'.id].reminder_sent_at = NoTime
       /\ sessions'[last'.id].status = "active"]_vars

\* C16: once a grant's expires-at is set, no operation replaces it with an earlier value
C16_ExpiresAtNeverDecreases ==
  [][\A id \in DOMAIN sessions :
       sessions[id].expires_at # NoTime =>
         sessions'[id].expires_at >= sessions[id].expires_at]_vars

\* the device calls a disconnect of grant s issues, in order
DisconnectCalls(s) ==
  (IF s.firewall_rule_id # NoRule
   THEN <<[op |-> "disable_rule", target |-> s.firewall_rule_id]>> ELSE <<>>)
  \o <<[op |-> "terminate", target |-> s.mikrotik_username],
       [op |-> "disable_identity", target |-> s.mikrotik_username]>>

\* C17: a manual disconnect requested by the owner or by an administrator for a grant
\* in a non-terminal state moves the grant to DISCONNECTED, whatever the device reports,
\* and issues, in this order, the call disabling the rule recorded on the grant (if
\* one is recorded), the call terminating the identity's connections and the call
\* disabling the identity
C17_ManualDisconnect ==
  [][(/\ last'.op = "disconnect"
      /\ last'.id \in DOMAIN sessions
      /\ sessions[last'.id].status \in NonTerminal
      /\ last'.user \in {"admin", sessions[last'.id].user_id}) =>
       LET s == sessions[last'.id]
       IN /\ sessions'[last'.id].status = "disconnected"
          /\ last'.tr = <<[id |-> last'.id, from |-> s.status, to |-> "disconnected"]>>
          /\ Len(last'.calls) = Len(DisconnectCalls(s))
          /\ \A k \in 1..Len(last'.calls) :
               /\ last'.calls[k].op = DisconnectCalls(s)[k].op
               /\ last'.calls[k].target = DisconnectCalls(s)[k].target]_vars

\* an ACTIVE grant with a recorded rule has just been disconnected by hand
C17_Witness ==
  /\ last.op = "disconnect"
  /\ last.result = "disconnected"
  /\ last.tr = <<[id |-> last.id, from |-> "active", to |-> "disconnected"]>>
  /\ Len(last.calls) = 3
  /\ last.calls[1].op = "disable_rule"

\* C18: a connection-check run whose session listing failed, because the device could
\* not be reached or because its listing paths raised errors, changes no grant and
\* issues no other device call and no notification
C18_FailedQueryChangesNothing ==
  [][(/\ last'.op = "check"
      /\ \E k \in 1..Len(last'.calls) :
           last'.calls[k].op = "list_sessions" /\ ~last'.calls[k].ok) =>
       /\ sessions' = sessions
       /\ idDisabled' = idDisabled
       /\ ruleDisabled' = ruleDisabled
       /\ Len(last'.calls) = 1
       /\ last'.notes = <<>>]_vars

\* C19: in a run of the connection check that obtained the device's report, or of the
\* expiry check, a failure while one grant is processed (last.id names the grant whose
\* commit raised) does not keep the other loaded grants from being processed: every
\* other REQUESTED grant whose identity is active leaves REQUESTED, and every other
\* grant whose expires-at has passed becomes EXPIRED
C19_FailureIsolatedPerGrant ==
  [][/\ (last'.op = "check" /\ last'.result \in {"done", "aborted"}) =>
          \A id \in DOMAIN sessions \ {last'.id} :
            (/\ sessions[id].status = "requested"
             /\ sessions[id].mikrotik_username \in last'.active) =>
              sessions'[id].status # "requested"
     /\ last'.op = "expiry" =>
          \A id \in DOMAIN sessions \ {last'.id} :
            Elapsed(sessions[id]) => sessions'[id].status = "expired"]_vars

\* C20: a connection check in which no device record is flagged active treats no
\* identity as active: no REQUESTED grant becomes CONNECTED, no last-seen stamp is
\* refreshed and no DISCONNECTED grant is resurrected
C20_ActiveOnlyWhenFlagged ==
  [][(last'.op = "check" /\ last'.flagged = {}) =>
       /\ last'.active = {}
       /\ \A id \in DOMAIN sessions :
            /\ sessions[id].status = "requested" => sessions'[id].status = "requested"
            /\ sessions'[id].last_seen_at = sessions[id].last_seen_at
            /\ sessions[id].status = "disconnected" =>
                 sessions'[id].status = "disconnected"]_vars

\* C22: a run of the connection check or of the expiry check creates no grant and
\* deletes none: the ids in the store, and whose grant each is, are the same after the
\* run as before it
C22_JobsKeepTheSetOfGrants ==
  [][last'.op \in {"check", "expiry"} =>
       /\ DOMAIN sessions' = DOMAIN sessions
       /\ nextId' = nextId
       /\ \A id \in DOMAIN sessions :
            /\ sessions'[id].user_id = sessions[id].user_id
            /\ sessions'[id].mikrotik_username = sessions[id].mikrotik_username
            /\ sessions'[id].created_at = sessions[id].created_at]_vars

\* a connection check has just found active an identity whose only grant is
\* DISCONNECTED and has resurrected that grant
C22_Witness ==
  /\ last.op = "check"
  /\ sessions # <<>>
  /\ \E k \in 1..Len(last.tr) : last.tr[k].from = "disconnected"

\* C27: when storing the new grant fails after the identity was enabled, requestGrant
\* fails, the stored grants are unchanged, and the call that disables the identity
\* is issued after the call that enabled it
C27_FailedStoreRevertsEnable ==
  [][(last'.op = "request" /\ last'.result = "db_error") =>
       /\ sessions' = sessions
       /\ nextId' = nextId
       /\ \E j, k \in 1..Len(last'.calls) :
            /\ j < k
            /\ last'.calls[j].op = "enable_identity"
            /\ last'.calls[j].target = last'.arg
            /\ last'.calls[j].ok
            /\ last'.calls[k].op = "disable_identity"
            /\ last'.calls[k].target = last'.arg]_vars

\* a requestGrant has just failed on the store after it had enabled the identity,
\* and the identity is disabled again
C27_Witness ==
  /\ last.op = "request"
  /\ last.result = "db_error"
  /\ Len(last.calls) = 2
  /\ idDisabled[last.arg]

\* C21: a run of the retention job that commits deletes exactly the rows that are
\* EXPIRED or DISCONNECTED and were last updated more than the retention window
\* (30 days) before the run
C21_SweepDeletesOldTerminalGrants ==
  [][(sweep'.ran /\ ~sweep.ran /\ sweep'.ok) =>
       \A id \in DOMAIN vpnRows :
         id \notin DOMAIN vpnRows' <=>
           /\ vpnRows[id].status \in Terminal
           /\ vpnRows[id].updated_at < now - RetentionSeconds]_vars

\* C23: at most one run of a scheduled job is in progress at any time
C23_OneJobRunAtATime ==
  Cardinality({j \in Jobs : inFlight[j] > 0}) <= 1

\* C29: the scheduler is started, and its jobs are scheduled, only when an active
\* device configuration exists
C29_NoStartWithoutDeviceConfig ==
  [][(~scheduler.running /\ scheduler'.running) => deviceConfig]_vars

\* C30: a connection-check run is scheduled at the poll interval that the settings
\* store holds when it starts, and the grace window it uses is at least twice the
\* period at which the runs are scheduled
C30_RunsUseTheStoredInterval ==
  (lastRun.job = "check_vpn_connections" /\ lastRun.outcome = "ran") =>
    /\ lastRun.period = lastRun.interval_seconds
    /\ lastRun.grace >= 2 * lastRun.period

\* C28: after any binding request each grantee has at most two bound identities and
\* each identity is bound to at most one grantee; a request that names more than two
\* identities, or one bound to another grantee, is rejected and changes no binding
C28_BindingLimits ==
  [][/\ \A u \in Users :
          Cardinality({a \in accounts' : a.user_id = u}) <= 2
     /\ \A a, b \in accounts' : a.mikrotik_username = b.mikrotik_username => a = b
     /\ LET named == SeqToSet(lastBind'.usernames)
        IN (/\ lastBind'.user \in Users
            /\ \/ Cardinality(named) > 2
               \/ \E a \in accounts :
                    a.mikrotik_username \in named /\ a.user_id # lastBind'.user) =>
             /\ lastBind'.result \notin {"", "ok"}
             /\ accounts' = accounts]_vars

\* a request naming an identity of another grantee has just been rejected while a
\* grantee holds two identities
C28_Witness ==
  /\ lastBind.result = "bound_to_other"
  /\ \E u \in Users : Cardinality({a \in accounts : a.user_id = u}) = 2

\* the User Manager menu the device has, if any
UmPath(c) ==
  IF c.dev["um"] \notin {"raises", "error_text"} THEN "um" ELSE "um_old"

\* C24: listing the identities of a reachable device never fails; it returns the User
\* Manager records, tagged user_manager, when that path serves records, and otherwise
\* (the path fails, is unsupported or serves nothing) the PPP secrets, tagged
\* ppp_secret, when that path serves records
C24_IdentityListingFallsBack ==
  (/\ adapterReply.done
   /\ adapterCall.op = "list_identities"
   /\ adapterCall.reachable
   /\ \A q \in IdentityPaths : adapterCall.dev[q] # "late_failure") =>
    /\ adapterReply.outcome = "ok"
    /\ adapterCall.dev[UmPath(adapterCall)] = "records" =>
         /\ adapterReply.records = {UmPath(adapterCall)}
         /\ adapterReply.source = "user_manager"
    /\ (/\ adapterCall.dev[UmPath(adapterCall)] # "records"
        /\ adapterCall.dev["ppp"] = "records") =>
         /\ adapterReply.records = {"ppp"}
         /\ adapterReply.source = "ppp_secret"

\* C25: an operation on the shell transport reports a failure when the output of the
\* last command it issued contains a known failure phrase, and the records an
\* operation returns never come from an output that contains one
C25_FailurePhraseIsAFailure ==
  (/\ adapterReply.done
   /\ adapterCall.transport = "ssh"
   /\ adapterCall.reachable
   /\ adapterReply.read # <<>>) =>
    /\ HasFailurePhrase(adapterReply.read[Len(adapterReply.read)]) =>
         adapterReply.outcome # "ok"
    /\ \A q \in adapterReply.records : ~HasFailurePhrase(adapterCall.dev[q])

\* the menus of the call that the device does not have
Unsupported(c) ==
  {q \in DOMAIN c.dev : c.dev[q] = IF c.transport = "api" THEN "raises" ELSE "error_text"}

\* C26: setting the disabled flag of an identity fails with a result that names the
\* cause: the connection when the device is unreachable, the missing feature when the
\* device has none of the identity menus, and the missing record when the device has
\* a menu and the identity is on none of them
C26_ThreeFailureOutcomes ==
  (/\ adapterReply.done
   /\ adapterCall.op = "set_identity_disabled"
   /\ adapterCall.transport = "ssh" => \A q \in IdentityPaths : adapterCall.dev[q] # "raises") =>
    /\ ~adapterCall.reachable =>
         adapterReply.outcome # "ok" /\ adapterReply.detail = "connect"
    /\ (adapterCall.reachable /\ Unsupported(adapterCall) = IdentityPaths) =>
         adapterReply.outcome # "ok" /\ adapterReply.detail = "unsupported"
    /\ (/\ adapterCall.reachable
        /\ Unsupported(adapterCall) # IdentityPaths
        /\ adapterCall.present = {}) =>
         adapterReply.outcome # "ok" /\ adapterReply.detail = "not_found"

\* the rows the handlers of the grant life cycle add to audit_logs: create_audit_log is
\* called by the database endpoints only
AuditLogRows == <<>>

\* what the store keeps of a grant once it has ended: its row, the time of the last
\* sighting (a column every connection check refreshes) left aside, and the audit rows
Trail(row) == <<[row EXCEPT !.last_seen_at = NoTime], AuditLogRows>>

\* C31: a connection-check run that disconnects a CONNECTED grant on confirmation
\* timeout leaves it DISCONNECTED, as a 'no' reply of its owner in the same state
\* does, and what the store then keeps of the grant differs between the two cases
C31_TimeoutAndRefusalToldApart ==
  [][last'.op = "check" =>
       \A k \in 1..Len(last'.tr) :
         (/\ last'.tr[k].from = "connected"
          /\ last'.tr[k].to = "disconnected"
          /\ sessions[last'.tr[k].id].mikrotik_username \in last'.active) =>
           LET id == last'.tr[k].id
               no == handle_session_confirmation(World, sessions[id].user_id, id, "no",
                                                 last'.fail).w
           IN /\ sessions'[id].status = "disconnected"
              /\ no.s[id].status = "disconnected"
              /\ Trail(sessions'[id]) # Trail(no.s[id])]_vars

\* the words that stand for true
TrueWords == {<<"y", "e", "s">>, <<"t", "r", "u", "e">>,
              <<"e", "n", "a", "b", "l", "e", "d">>, <<"1">>}

\* C32: the normalizer maps every spelling of yes, no, true, false, enabled, disabled,
\* 1 and 0 to the boolean it stands for, and every record a shell parser returns has a
\* disabled field that is a boolean, whether the record was flagged X, carried a
\* disabled= pair, or neither
C32_StrictBooleans ==
  /\ (/\ parseOutput.done
      /\ parseInput.op = "normalize_bool"
      /\ parseInput.arg.kind = "str"
      /\ \E w \in BoolWords : parseInput.arg.s \in Spellings(w)) =>
       parseOutput.result = Bool(\E w \in TrueWords : parseInput.arg.s \in Spellings(w))
  /\ (parseOutput.done /\ parseInput.op \in Parsers \cup {"parse_rule_block"}) =>
       \A i \in 1..Len(parseOutput.result) :
         /\ "disabled" \in DOMAIN parseOutput.result[i]
         /\ parseOutput.result[i]["disabled"].kind = "bool"

\* the pairs of a block, those of the index line first
RECURSIVE Flatten(_)
Flatten(seqs) == IF seqs = <<>> THEN <<>> ELSE Head(seqs) \o Flatten(Tail(seqs))

\* the record written by hand for an index, a comment, pairs and a disabled flag
ExpectedRecord(number, comment, pairs, disabled) ==
  [k \in {"number", "comment", "disabled"} \cup {pairs[i].k : i \in 1..Len(pairs)} |->
     IF k = "number" THEN Str(number)
     ELSE IF k = "comment" THEN Str(comment)
     ELSE IF k = "disabled" THEN Bool(disabled)
     ELSE Str(pairs[CHOOSE i \in 1..Len(pairs) : pairs[i].k = k].value)]

\* C33: the rule parser returns one record for a record block; for a block whose index
\* line carries the X flag and an inline comment the record is the one written by hand:
\* the comment text, every pair of the index line and of the continuation lines with
\* quoted values unquoted, and disabled true; a comment on a line of its own before a
\* record is the comment of that record and of no other
C33_RuleBlockParsed ==
  (parseOutput.done /\ parseInput.op = "parse_rule_block") =>
    LET b   == parseInput.arg
        out == parseOutput.result
    IN /\ Len(out) = IF b.second = "none" THEN 1 ELSE 2
       /\ (b.flag /\ b.inline # NoText) =>
            out[1] = ExpectedRecord(<<"0">>, b.inline, b.head \o Flatten(b.cont), TRUE)
       /\ (b.inline = NoText /\ b.own # NoText) =>
            "comment" \in DOMAIN out[1] /\ out[1]["comment"] = Str(b.own)
       /\ (b.inline = NoText /\ b.own = NoText) => "comment" \notin DOMAIN out[1]
       /\ b.second = "record" => "comment" \notin DOMAIN out[2]
       /\ b.second = "commented" =>
            "comment" \in DOMAIN out[2] /\ out[2]["comment"] = Str(OwnText)

\* a flagged block with an inline comment, a pair on its index line, two continuation
\* lines with quoted values and a commented record after it has been parsed
C33_Witness ==
  /\ parseOutput.done
  /\ parseInput.op = "parse_rule_block"
  /\ parseInput.arg.flag
  /\ parseInput.arg.inline = InlineText
  /\ parseInput.arg.head = <<PChain>>
  /\ Len(parseInput.arg.cont) = 2
  /\ parseInput.arg.second = "commented"
  /\ Len(parseOutput.result) = 2
  /\ parseOutput.result[1]["src-address-list"] = Str(<<"v", "p", "n", " ", "1">>)
  /\ parseOutput.result[1]["disabled"] = Bool(TRUE)


\* what the claim compares: the status of the grant, its identity, its rule
Outcome(w) == <<w.s[RaceGrant].status, w.idDis["a1"], w.ruleDis["*1"]>>

StartWorld ==
  [s |-> race.start.s, idDis |-> race.start.idDis, ruleDis |-> race.start.ruleDis,
   tr |-> <<>>, calls |-> <<>>, notes |-> <<>>]

\* the reply handler run on its own from w
ReplyAlone(w) == handle_session_confirmation(w, "u1", RaceGrant, race.decision, {}).w

\* the job run on its own from w
JobAlone(w) ==
  LET loaded == IF w.s[RaceGrant].status \in NonTerminal THEN <<RaceGrant>> ELSE <<>>
      report == [n \in Identities |-> IF n = "a1" /\ race.active THEN "active" ELSE "none"]
  IN IF race.job = "expiry" THEN check_expired_sessions(w, loaded, {}, 0).w
     ELSE check_vpn_connections(w, loaded, report, <<>>, {}, 0).w

SerialOutcomes ==
  {Outcome(JobAlone(ReplyAlone(StartWorld))), Outcome(ReplyAlone(JobAlone(StartWorld)))}

RaceOver == race.pc.bot = "done" /\ race.pc.job = "done"

\* C34: when a confirmation reply and a connection-check or expiry-check run work on
\* the same grant at the same time, the status, the identity and the rule they leave
\* are those one of the two serial orders leaves, and the grant is never left ACTIVE
\* with its rule enabled and its identity disabled
C34_RaceEqualsASerialOrder ==
  RaceOver =>
    /\ Outcome(World) \in SerialOutcomes
    /\ ~(/\ sessions[RaceGrant].status = "active"
         /\ ~ruleDisabled["*1"]
         /\ idDisabled["a1"])


\* C35: while every device call succeeds, a grant that is ACTIVE or REMINDER_SENT has
\* its identity enabled on the device
C35_ActiveGrantHasEnabledIdentity ==
  \A id \in DOMAIN sessions :
    sessions[id].status \in {"active", "reminder_sent"} =>
      ~idDisabled[sessions[id].mikrotik_username]


Attempted(calls, op, target) ==
  \E k \in 1..Len(calls) : calls[k].op = op /\ calls[k].target = target

\* C36: a disconnect and an expiry store the terminal status before the device is
\* called and whatever the device calls do: the grant ends DISCONNECTED or EXPIRED,
\* each of the side effects is attempted even when the ones before it failed, the
\* handler returns normally; and when the status cannot be stored no device call of
\* the removal has been made
C36_TerminalStatusBeforeBestEffortCalls ==
  [][/\ \A k \in 1..Len(last'.tr) :
          last'.tr[k].to \in Terminal =>
            LET s == sessions'[last'.tr[k].id]
            IN /\ s.status = last'.tr[k].to
               /\ last'.result \in {"disconnected", "done"}
               /\ Attempted(last'.calls, "disable_identity", s.mikrotik_username)
               /\ s.firewall_rule_id # NoRule =>
                    Attempted(last'.calls, "disable_rule", s.firewall_rule_id)
               /\ last'.tr[k].to = "disconnected" =>
                    Attempted(last'.calls, "terminate", s.mikrotik_username)
     /\ last'.result = "aborted" =>
          \A k \in 1..Len(last'.calls) :
            last'.calls[k].op \notin {"disable_rule", "terminate", "disable_identity"}]_vars

\* a grant with a rule is disconnected while every device call fails
C36_Witness ==
  /\ last.op \in {"disconnect", "reply", "check"}
  /\ last.result \in {"disconnected", "done"}
  /\ \E k \in 1..Len(last.tr) :
       /\ last.tr[k].to = "disconnected"
       /\ sessions[last.tr[k].id].status = "disconnected"
       /\ sessions[last.tr[k].id].firewall_rule_id # NoRule
  /\ Len(last.calls) >= 3
  /\ \E k \in 1..Len(last.calls) : last.calls[k].op = "disable_rule" /\ ~last.calls[k].ok
  /\ \E k \in 1..Len(last.calls) : last.calls[k].op = "disable_identity" /\ ~last.calls[k].ok


C38_EveryEntryIntoConnectedIsPrompted ==
  [][last'.op = "check" =>
       \A k \in 1..Len(last'.tr) :
         (/\ last'.tr[k].to = "connected"
          /\ RequireConfirmation(sessions[last'.tr[k].id].user_id)) =>
           /\ \E n \in 1..Len(last'.notes) :
                last'.notes[n] = [kind |-> "confirmation_required", id |-> last'.tr[k].id]
           /\ sessions'[last'.tr[k].id].status = "connected"]_vars


\* C39: a disconnect request or a confirmation reply of a user who does not own the
\* grant is rejected: the grants and the device stay as they were and no device call
\* is made
C39_OnlyTheOwnerActsOnAGrant ==
  [][(/\ last'.op \in {"disconnect", "reply"}
      /\ last'.id \in DOMAIN sessions
      /\ last'.user \in Users
      /\ last'.user # sessions[last'.id].user_id) =>
       /\ last'.result \in {"not_registered", "not_yours", "no_permission"}
       /\ sessions' = sessions
       /\ idDisabled' = idDisabled
       /\ ruleDisabled' = ruleDisabled
       /\ last'.calls = <<>>]_vars

\* a registered user has just answered the prompt, or asked for the disconnect, of
\* another grantee's grant that is not over
C39_Witness ==
  /\ last.op \in {"disconnect", "reply"}
  /\ last.result \in {"not_yours", "no_permission"}
  /\ last.id \in DOMAIN sessions
  /\ last.user \in Users \ {sessions[last.id].user_id}
  /\ sessions[last.id].status \in NonTerminal


OneGrantPerIdentity ==
  \A i, j \in DOMAIN sessions :
    (/\ sessions[i].mikrotik_username = sessions[j].mikrotik_username
     /\ sessions[i].status \in NonTerminal
     /\ sessions[j].status \in NonTerminal) => i = j

GrantsOnBoundIdentities ==
  \A i \in DOMAIN sessions : sessions[i].mikrotik_username \in BoundNames(sessions[i].user_id)

\* C40: an identity carries at most one non-terminal grant, the identity of every
\* grant is bound to the grantee who owns the grant, and a request never creates a
\* grant on an identity that is bound to another grantee or that carries another
\* grantee's non-terminal grant
C40_IdentityBelongsToOneGrantee ==
  /\ [](OneGrantPerIdentity /\ GrantsOnBoundIdentities)
  /\ [][(last'.op \in {"request", "request_vpn"} /\ last'.result = "created") =>
          /\ \A a \in accounts : a.mikrotik_username = last'.arg => a.user_id = last'.user
          /\ \A i \in DOMAIN sessions :
               (sessions[i].mikrotik_username = last'.arg /\ sessions[i].status \in NonTerminal)
                 => sessions[i].user_id = last'.user]_vars

====
